---- MODULE Spec2Model ----
(***************************************************************************)
(* Envelope budgeting: the permission helper (features/user/permissions.ts)*)
(* and the handlers of the transactions, the envelopes and the budget      *)
(* profile with its members and invitations (features/transactions,        *)
(* features/envelopes, features/budgets: operations.ts), with the signup   *)
(* hooks that accept an invitation, over the Prisma datastore.             *)
(*                                                                         *)
(* Every handler is split at its awaits: one action per datastore call,    *)
(* together with the synchronous code that follows it up to the next       *)
(* await.  Envelope.update with {increment}/{decrement} is one atomic      *)
(* UPDATE statement.  Amounts are Float columns; the model draws them from *)
(* integers, on which double arithmetic is exact.  The description and     *)
(* date columns are copied verbatim by the handlers, never read, and are   *)
(* left out of the rows.                                                   *)
(***************************************************************************)
EXTENDS Integers, FiniteSets, Sequences, TLC

\* ---------------------------------------------------------------- bounds
MaxCalls == 2
MaxBatch == 2

\* ------------------------------------------------------------ vocabulary
Null == -1
NoUser == 0

Procs == {"a", "b"}
Users == 1..5
Callers == {NoUser} \cup Users
TransactionType == {"EXPENSE", "INCOME", "TRANSFER"}
Amounts == {30, 50}
UpdateFields == {"type", "amount", "envelopeId"}

VARIABLES
  Transaction,        \* table: id -> [amount, type, envelopeId, budgetProfileId]
  nextTransactionId,  \* autoincrement of Transaction.id
  Envelope,           \* table: id -> [budgetProfileId, amount, spent]
  UserBudgetProfile,  \* table: set of [userId, budgetProfileId, role]
  User,               \* table: the ids of the users; user u has the email u
  BudgetProfile,      \* table: id -> [ownerId]
  Invitation,         \* table: id -> [email, budgetProfileId, role, status,
                      \*               expired]; the token is the id
  nextId,             \* the next ids of Envelope, BudgetProfile, Invitation
  proc,               \* the request each server task is handling, and where it is
  calls,              \* requests started so far
  datastoreError,     \* some request was aborted by an error of a datastore write
  roleCheck           \* last direct call of ensureUserRole and its outcome

vars == <<Transaction, nextTransactionId, Envelope, UserBudgetProfile, User,
          BudgetProfile, Invitation, nextId, proc, calls, datastoreError,
          roleCheck>>

\* the tables and counters the transaction handlers never write
nonLedger == <<User, BudgetProfile, UserBudgetProfile, Invitation, nextId>>

\* ------------------------------------------------------- initial datastore
InitialUserBudgetProfile ==
  { [userId |-> 1, budgetProfileId |-> 1, role |-> "OWNER"],
    [userId |-> 2, budgetProfileId |-> 1, role |-> "ADMIN"],
    [userId |-> 3, budgetProfileId |-> 1, role |-> "MEMBER"],
    [userId |-> 4, budgetProfileId |-> 2, role |-> "OWNER"] }

\* envelopes 1 and 2 of profile 1, envelope 3 of profile 2
InitialEnvelope(s1) ==
  [e \in {1, 2, 3} |->
     [budgetProfileId |-> IF e = 3 THEN 2 ELSE 1,
      amount |-> 100,
      spent |-> IF e = 1 THEN s1 ELSE 0]]

\* profile 1 is owned by user 1, profile 2 by user 4
InitialBudgetProfile ==
  [b \in {1, 2} |-> [ownerId |-> IF b = 1 THEN 1 ELSE 4]]

\* the address 6, which no user has, holds a pending invitation to profile 1
InitialInvitation ==
  [i \in {1} |-> [email |-> 6, budgetProfileId |-> 1, role |-> "MEMBER",
                  status |-> "PENDING", expired |-> FALSE]]

\* null, the falsy id 0, the three envelopes, an id that names no envelope
EnvelopeIdInputs == {Null, 0, 1, 2, 3, 4}

\* A ledger the handlers leave behind or the schema admits: empty, one linked
\* EXPENSE, one TRANSFER row (no handler creates these, the enum has them),
\* or an EXPENSE and an INCOME on the same envelope.
InitialLedgers ==
  { [tx |-> [i \in {} |-> 0], env |-> InitialEnvelope(0)],
    [tx |-> [i \in {1} |-> [amount |-> 50, type |-> "EXPENSE",
                            envelopeId |-> 1, budgetProfileId |-> 1]],
     env |-> InitialEnvelope(50)],
    [tx |-> [i \in {1} |-> [amount |-> 30, type |-> "TRANSFER",
                            envelopeId |-> 1, budgetProfileId |-> 1]],
     env |-> InitialEnvelope(0)],
    [tx |-> [i \in {1, 2} |->
               [amount |-> IF i = 1 THEN 50 ELSE 30,
                type |-> IF i = 1 THEN "EXPENSE" ELSE "INCOME",
                envelopeId |-> 1, budgetProfileId |-> 1]],
     env |-> InitialEnvelope(20)] }

IdleProc == [pc |-> "idle"]
NoRoleCheck == [user |-> NoUser, budgetProfileId |-> 0, requiredRoles |-> {},
                status |-> "none", row |-> {}]

\* ------------------------------------------------------- permissions.ts
roleHierarchy(role) ==
  CASE role = "MEMBER" -> 1
    [] role = "ADMIN" -> 2
    [] role = "OWNER" -> 3
    [] OTHER -> 0

Infinity == 99

RECURSIVE MathMin(_)
MathMin(S) ==
  IF S = {} THEN Infinity
  ELSE LET x == CHOOSE y \in S : TRUE
           m == MathMin(S \ {x})
       IN IF x < m THEN x ELSE m

RECURSIVE MathMax(_)
MathMax(S) ==
  IF S = {} THEN 0
  ELSE LET x == CHOOSE y \in S : TRUE
           m == MathMax(S \ {x})
       IN IF x > m THEN x ELSE m

\* mutant: the highest of the required levels instead of the lowest
requiredMinLevel_Max(requiredRoles) ==
  MathMax({roleHierarchy(role) : role \in requiredRoles})

requiredMinLevel(requiredRoles) ==
  MathMin({roleHierarchy(role) : role \in requiredRoles})

\* mutant: a missing membership reported as Forbidden
MembershipNotFound_Forbidden == "403"

MembershipNotFound == "404"

\* mutant: the minimum level itself is refused
InsufficientRole_AtMost(userRoleLevel, minLevel) == userRoleLevel <= minLevel

InsufficientRole(userRoleLevel, minLevel) == userRoleLevel < minLevel

\* findUnique on the compound key (userId, budgetProfileId)
findMembership(user, budgetProfileId) ==
  {m \in UserBudgetProfile :
     m.userId = user /\ m.budgetProfileId = budgetProfileId}

ensureUserRole(user, budgetProfileId, requiredRoles) ==
  IF user = NoUser THEN [status |-> "401", row |-> {}]
  ELSE LET found == findMembership(user, budgetProfileId) IN
    IF found = {} THEN [status |-> MembershipNotFound, row |-> {}]
    ELSE LET userBudgetProfile == CHOOSE m \in found : TRUE
             userRoleLevel == roleHierarchy(userBudgetProfile.role)
         IN IF requiredMinLevel(requiredRoles) = 0
              THEN [status |-> "500", row |-> {}]
            ELSE IF InsufficientRole(userRoleLevel, requiredMinLevel(requiredRoles))
              THEN [status |-> "403", row |-> {}]
            ELSE [status |-> "200", row |-> {userBudgetProfile}]

\* findFirst({where: {userId}}): any of the user's membership rows
getCurrentBudgetProfileId(user) ==
  {m.budgetProfileId : m \in {x \in UserBudgetProfile : x.userId = user}}

MemberRoles == {"MEMBER", "ADMIN", "OWNER"}

\* ------------------------------------------------- transactions/operations.ts
Truthy(envelopeId) == envelopeId # Null /\ envelopeId # 0

Has(updateData, field) == field \in DOMAIN updateData

\* mutant: INCOME counted like EXPENSE
createSpentAdjustment_Unsigned(type, amount) ==
  IF type = "EXPENSE" \/ type = "INCOME" THEN amount ELSE 0

createSpentAdjustment(type, amount) ==
  IF type = "EXPENSE" THEN amount
  ELSE IF type = "INCOME" THEN 0 - amount ELSE 0

\* mutant: INCOME reverted like EXPENSE
originalSpentAdjustment_Unsigned(type, originalAmount) ==
  IF type = "EXPENSE" \/ type = "INCOME" THEN originalAmount ELSE 0

originalSpentAdjustment(type, originalAmount) ==
  IF type = "EXPENSE" THEN originalAmount
  ELSE IF type = "INCOME" THEN 0 - originalAmount ELSE 0

\* mutant: the new effect is not applied
newSpentAdjustment_None(newType, newAmount) == 0

newSpentAdjustment(newType, newAmount) ==
  IF newType = "EXPENSE" THEN newAmount
  ELSE IF newType = "INCOME" THEN 0 - newAmount ELSE 0

\* mutant: INCOME reverted like EXPENSE
deleteSpentAdjustment_Unsigned(type, amount) ==
  IF type = "EXPENSE" \/ type = "INCOME" THEN amount ELSE 0

deleteSpentAdjustment(type, amount) ==
  IF type = "EXPENSE" THEN amount
  ELSE IF type = "INCOME" THEN 0 - amount ELSE 0

\* mutant: the supplied envelopeId ignored
newEnvelopeId_KeepOriginal(updateData, originalEnvelopeId) ==
  originalEnvelopeId

newEnvelopeId(updateData, originalEnvelopeId) ==
  IF Has(updateData, "envelopeId") THEN updateData.envelopeId
  ELSE originalEnvelopeId

newType(updateData, originalType) ==
  IF Has(updateData, "type") THEN updateData.type ELSE originalType

\* mutant: the supplied amount ignored in the new adjustment
newAmount_KeepOriginal(updateData, originalAmount) == originalAmount

newAmount(updateData, originalAmount) ==
  IF Has(updateData, "amount") THEN updateData.amount ELSE originalAmount

\* mutant: the TRANSFER check of createTransaction dropped
createRejectsType_Never(type) == FALSE

createRejectsType(type) == type = "TRANSFER"

\* mutant: only the change into TRANSFER is rejected
crossesTransfer_IntoOnly(nType, originalType) ==
  nType = "TRANSFER" /\ originalType # "TRANSFER"

crossesTransfer(nType, originalType) ==
  \/ (nType = "TRANSFER" /\ originalType # "TRANSFER")
  \/ (nType # "TRANSFER" /\ originalType = "TRANSFER")

\* mutant: the TRANSFER check of deleteTransaction dropped
deleteRejectsType_Never(type) == FALSE

deleteRejectsType(type) == type = "TRANSFER"

\* ---------------------------------------------------------- Prisma calls
IncrementSpent(envelopeId, by) ==
  [Envelope EXCEPT ![envelopeId].spent = @ + by]

\* mutant: the reversal is not committed
DecrementSpent_Uncommitted(envelopeId, by) == Envelope

DecrementSpent(envelopeId, by) ==
  [Envelope EXCEPT ![envelopeId].spent = @ - by]

InsertRow(id, row) ==
  [i \in DOMAIN Transaction \cup {id} |->
     IF i = id THEN row ELSE Transaction[i]]

\* mutant: the row is left in place
DeleteRow_Keep(id) == Transaction

DeleteRow(id) ==
  [i \in DOMAIN Transaction \ {id} |-> Transaction[i]]

\* mutant: the envelopeId of the row is not written
UpdatedRow_KeepEnvelope(row, updateData, envelopeId) ==
  [amount |-> IF Has(updateData, "amount") THEN updateData.amount ELSE row.amount,
   type |-> IF Has(updateData, "type") THEN updateData.type ELSE row.type,
   envelopeId |-> row.envelopeId,
   budgetProfileId |-> row.budgetProfileId]

\* data: { ...updateData, envelopeId }
UpdatedRow(row, updateData, envelopeId) ==
  [amount |-> IF Has(updateData, "amount") THEN updateData.amount ELSE row.amount,
   type |-> IF Has(updateData, "type") THEN updateData.type ELSE row.type,
   envelopeId |-> envelopeId,
   budgetProfileId |-> row.budgetProfileId]

\* the foreign key Transaction.envelopeId -> Envelope.id
EnvelopeFkOk(envelopeId) == envelopeId = Null \/ envelopeId \in DOMAIN Envelope

\* ------------------------------------------------------------- requests
CreateInputs(envelopeIds) ==
  [amount : Amounts, type : TransactionType, envelopeId : envelopeIds]

Restrict(r, S) == [f \in S |-> r[f]]

UpdateDatas(envelopeIds) ==
  {Restrict([type |-> t, amount |-> a, envelopeId |-> e], S) :
     t \in TransactionType, a \in Amounts, e \in envelopeIds,
     S \in SUBSET UpdateFields}

\* the ids of the rows, and one id that names no row
TransactionIdInputs == DOMAIN Transaction \cup {nextTransactionId}

InFlight == {p \in Procs : proc[p].pc \notin {"idle", "done"}}

\* what a request finds when it arrives
Snapshot ==
  [Transaction |-> Transaction, Envelope |-> Envelope, calls |-> calls,
   inFlight |-> InFlight, UserBudgetProfile |-> UserBudgetProfile,
   Invitation |-> Invitation, BudgetProfile |-> BudgetProfile]

NoLoc == [budgetProfileId |-> 0]

\* the handler runs up to its first await
Start(p, op, user, args, pc, status, loc) ==
  /\ calls' = calls + 1
  /\ proc' = [proc EXCEPT ![p] =
       [pc |-> pc, op |-> op, user |-> user, args |-> args, loc |-> loc,
        status |-> status, failedAt |-> "none", ensured |-> FALSE,
        pre |-> Snapshot]]

Goto(p, pc, loc) ==
  proc' = [proc EXCEPT ![p].pc = pc, ![p].loc = loc]

\* ensureUserRole has returned the caller's membership and the handler goes on
Ensured(p, pc, loc) ==
  proc' = [proc EXCEPT ![p].pc = pc, ![p].loc = loc, ![p].ensured = TRUE]

\* ... and the handler throws an HttpError, or returns, before any write
EnsuredFinish(p, status) ==
  /\ proc' = [proc EXCEPT ![p].pc = "done", ![p].status = status,
                          ![p].ensured = TRUE]
  /\ UNCHANGED datastoreError

\* the handler returns, or throws an HttpError
Finish(p, status) ==
  /\ proc' = [proc EXCEPT ![p].pc = "done", ![p].status = status]
  /\ UNCHANGED datastoreError

\* a datastore write throws; no handler catches, the error propagates out
\* of the handler from the call that threw
Abort(p) ==
  /\ proc' = [proc EXCEPT ![p].pc = "done", ![p].status = "PrismaError",
                          ![p].failedAt = proc[p].pc]
  /\ datastoreError' = TRUE

\* ------------------------------------------------------ createTransaction
\* lines 40-43: the authentication check, then getCurrentBudgetProfileId
createTransactionStart(p, user, args) ==
  /\ UNCHANGED <<Transaction, nextTransactionId, Envelope, nonLedger,
                 datastoreError, roleCheck>>
  /\ IF user = NoUser
       THEN Start(p, "createTransaction", user, args, "done", "401", NoLoc)
     ELSE IF getCurrentBudgetProfileId(user) = {}
       THEN Start(p, "createTransaction", user, args, "done", "404", NoLoc)
     ELSE \E b \in getCurrentBudgetProfileId(user) :
            Start(p, "createTransaction", user, args, "c_role", "pending",
                  [budgetProfileId |-> b])

\* lines 46-50: ensureUserRole, then the TRANSFER check
createTransactionRole(p) ==
  /\ proc[p].pc = "c_role"
  /\ UNCHANGED <<Transaction, nextTransactionId, Envelope, nonLedger,
                 calls, roleCheck>>
  /\ LET r == ensureUserRole(proc[p].user, proc[p].loc.budgetProfileId,
                             MemberRoles)
     IN IF r.status # "200" THEN Finish(p, r.status)
        ELSE IF createRejectsType(proc[p].args.type) THEN EnsuredFinish(p, "400")
        ELSE Ensured(p, "c_insert", proc[p].loc) /\ UNCHANGED datastoreError

\* lines 53-64: Transaction.create, connecting the envelope when truthy
createTransactionInsert(p) ==
  /\ proc[p].pc = "c_insert"
  /\ UNCHANGED <<Envelope, nonLedger, calls, roleCheck>>
  /\ LET args == proc[p].args
         linked == Truthy(args.envelopeId)
     IN IF linked /\ args.envelopeId \notin DOMAIN Envelope
          THEN Abort(p) /\ UNCHANGED <<Transaction, nextTransactionId>>
        ELSE
          /\ Transaction' = InsertRow(nextTransactionId,
               [amount |-> args.amount, type |-> args.type,
                envelopeId |-> IF linked THEN args.envelopeId ELSE Null,
                budgetProfileId |-> proc[p].loc.budgetProfileId])
          /\ nextTransactionId' = nextTransactionId + 1
          /\ IF linked
               THEN Goto(p, "c_spent",
                         [budgetProfileId |-> proc[p].loc.budgetProfileId,
                          newTransaction |-> nextTransactionId])
                      /\ UNCHANGED datastoreError
               ELSE /\ proc' = [proc EXCEPT ![p].pc = "done",
                         ![p].status = "200",
                         ![p].loc = [budgetProfileId |-> @.budgetProfileId,
                                     newTransaction |-> nextTransactionId]]
                    /\ UNCHANGED datastoreError

\* lines 67-79: Envelope.update {spent: {increment}}
createTransactionSpent(p) ==
  /\ proc[p].pc = "c_spent"
  /\ UNCHANGED <<Transaction, nextTransactionId, nonLedger, calls,
                 roleCheck>>
  /\ LET args == proc[p].args
     IN IF args.envelopeId \notin DOMAIN Envelope
          THEN Abort(p) /\ UNCHANGED Envelope
        ELSE /\ Envelope' = IncrementSpent(args.envelopeId,
                              createSpentAdjustment(args.type, args.amount))
             /\ Finish(p, "200")

\* ------------------------------------------------------ updateTransaction
\* lines 86-100: the authentication check, then Transaction.findUnique
updateTransactionStart(p, user, args) ==
  /\ UNCHANGED <<Transaction, nextTransactionId, Envelope, nonLedger,
                 datastoreError, roleCheck>>
  /\ IF user = NoUser
       THEN Start(p, "updateTransaction", user, args, "done", "401", NoLoc)
     ELSE IF args.id \notin DOMAIN Transaction
       THEN Start(p, "updateTransaction", user, args, "done", "404", NoLoc)
     ELSE Start(p, "updateTransaction", user, args, "u_role", "pending",
                [originalTransaction |-> Transaction[args.id]])

\* lines 103-134: ensureUserRole, the TRANSFER checks, the adjustments
updateTransactionRole(p) ==
  /\ proc[p].pc = "u_role"
  /\ UNCHANGED <<Transaction, nextTransactionId, Envelope, nonLedger,
                 calls, roleCheck>>
  /\ LET orig == proc[p].loc.originalTransaction
         updateData == proc[p].args.updateData
         r == ensureUserRole(proc[p].user, orig.budgetProfileId, MemberRoles)
         nType == newType(updateData, orig.type)
     IN IF r.status # "200" THEN Finish(p, r.status)
        ELSE IF crossesTransfer(nType, orig.type) THEN EnsuredFinish(p, "400")
        ELSE /\ UNCHANGED datastoreError
             /\ IF nType = "TRANSFER" THEN Ensured(p, "u_transfer", proc[p].loc)
                ELSE IF Truthy(orig.envelopeId)
                  THEN Ensured(p, "u_revert", proc[p].loc)
                ELSE Ensured(p, "u_row", proc[p].loc)

\* Transaction.update; throws when the row is gone or the envelope is missing
WriteRow(p, envelopeId, nextPc) ==
  LET id == proc[p].args.id
  IN IF id \notin DOMAIN Transaction \/ ~EnvelopeFkOk(envelopeId)
       THEN Abort(p) /\ UNCHANGED Transaction
     ELSE /\ Transaction' = [Transaction EXCEPT ![id] =
                 UpdatedRow(@, proc[p].args.updateData, envelopeId)]
          /\ IF nextPc = "done" THEN Finish(p, "200")
             ELSE Goto(p, nextPc, proc[p].loc) /\ UNCHANGED datastoreError

\* lines 115-124: a TRANSFER row is updated with no envelope logic
updateTransactionTransfer(p) ==
  /\ proc[p].pc = "u_transfer"
  /\ UNCHANGED <<nextTransactionId, Envelope, nonLedger, calls,
                 roleCheck>>
  /\ WriteRow(p, newEnvelopeId(proc[p].args.updateData,
                               proc[p].loc.originalTransaction.envelopeId),
              "done")

\* lines 139-146 (4a): revert the effect on the original envelope
updateTransactionRevert(p) ==
  /\ proc[p].pc = "u_revert"
  /\ UNCHANGED <<Transaction, nextTransactionId, nonLedger, calls,
                 roleCheck>>
  /\ LET orig == proc[p].loc.originalTransaction
     IN IF orig.envelopeId \notin DOMAIN Envelope
          THEN Abort(p) /\ UNCHANGED Envelope
        ELSE /\ Envelope' = DecrementSpent(orig.envelopeId,
                   originalSpentAdjustment(orig.type, orig.amount))
             /\ Goto(p, "u_row", proc[p].loc)
             /\ UNCHANGED datastoreError

\* lines 149-155 (4b): update the transaction row
updateTransactionRow(p) ==
  /\ proc[p].pc = "u_row"
  /\ UNCHANGED <<nextTransactionId, Envelope, nonLedger, calls,
                 roleCheck>>
  /\ LET target == newEnvelopeId(proc[p].args.updateData,
                                 proc[p].loc.originalTransaction.envelopeId)
     IN WriteRow(p, target, IF Truthy(target) THEN "u_apply" ELSE "done")

\* lines 158-167 (4c): apply the new effect on the target envelope
updateTransactionApply(p) ==
  /\ proc[p].pc = "u_apply"
  /\ UNCHANGED <<Transaction, nextTransactionId, nonLedger, calls,
                 roleCheck>>
  /\ LET orig == proc[p].loc.originalTransaction
         updateData == proc[p].args.updateData
         target == newEnvelopeId(updateData, orig.envelopeId)
     IN IF target \notin DOMAIN Envelope
          THEN Abort(p) /\ UNCHANGED Envelope
        ELSE /\ Envelope' = IncrementSpent(target,
                   newSpentAdjustment(newType(updateData, orig.type),
                                      newAmount(updateData, orig.amount)))
             /\ Finish(p, "200")

\* ------------------------------------------------------ deleteTransaction
\* lines 173-187: the authentication check, then Transaction.findUnique
deleteTransactionStart(p, user, args) ==
  /\ UNCHANGED <<Transaction, nextTransactionId, Envelope, nonLedger,
                 datastoreError, roleCheck>>
  /\ IF user = NoUser
       THEN Start(p, "deleteTransaction", user, args, "done", "401", NoLoc)
     ELSE IF args.id \notin DOMAIN Transaction
       THEN Start(p, "deleteTransaction", user, args, "done", "404", NoLoc)
     ELSE Start(p, "deleteTransaction", user, args, "d_role", "pending",
                [originalTransaction |-> Transaction[args.id]])

\* lines 190-199: ensureUserRole, then the TRANSFER check
deleteTransactionRole(p) ==
  /\ proc[p].pc = "d_role"
  /\ UNCHANGED <<Transaction, nextTransactionId, Envelope, nonLedger,
                 calls, roleCheck>>
  /\ LET transaction == proc[p].loc.originalTransaction
         r == ensureUserRole(proc[p].user, transaction.budgetProfileId,
                             MemberRoles)
     IN IF r.status # "200" THEN Finish(p, r.status)
        ELSE IF deleteRejectsType(transaction.type) THEN EnsuredFinish(p, "400")
        ELSE /\ UNCHANGED datastoreError
             /\ IF Truthy(transaction.envelopeId)
                  THEN Ensured(p, "d_revert", proc[p].loc)
                  ELSE Ensured(p, "d_row", proc[p].loc)

\* lines 202-209: revert the effect on the envelope
deleteTransactionRevert(p) ==
  /\ proc[p].pc = "d_revert"
  /\ UNCHANGED <<Transaction, nextTransactionId, nonLedger, calls,
                 roleCheck>>
  /\ LET transaction == proc[p].loc.originalTransaction
     IN IF transaction.envelopeId \notin DOMAIN Envelope
          THEN Abort(p) /\ UNCHANGED Envelope
        ELSE /\ Envelope' = DecrementSpent(transaction.envelopeId,
                   deleteSpentAdjustment(transaction.type, transaction.amount))
             /\ Goto(p, "d_row", proc[p].loc)
             /\ UNCHANGED datastoreError

\* lines 212-216: Transaction.delete
deleteTransactionRow(p) ==
  /\ proc[p].pc = "d_row"
  /\ UNCHANGED <<nextTransactionId, Envelope, nonLedger, calls,
                 roleCheck>>
  /\ IF proc[p].args.id \notin DOMAIN Transaction
       THEN Abort(p) /\ UNCHANGED Transaction
     ELSE Transaction' = DeleteRow(proc[p].args.id) /\ Finish(p, "200")

\* ------------------------------------------------- bulkImportTransactions
\* mutant: every imported row stored as an EXPENSE
finalType_Expense(originalAmount) == "EXPENSE"

\* lines 260-262: the type from the sign of the parsed amount
finalType(originalAmount) ==
  IF originalAmount < 0 THEN "EXPENSE"
  ELSE IF originalAmount > 0 THEN "INCOME"
  ELSE "EXPENSE"

\* line 257: Math.abs
finalAmount(originalAmount) ==
  IF originalAmount < 0 THEN 0 - originalAmount ELSE originalAmount

\* lines 242-245: the authentication check, then getCurrentBudgetProfileId
bulkImportTransactionsStart(p, user, args) ==
  /\ UNCHANGED <<Transaction, nextTransactionId, Envelope, nonLedger,
                 datastoreError, roleCheck>>
  /\ IF user = NoUser
       THEN Start(p, "bulkImportTransactions", user, args, "done", "401", NoLoc)
     ELSE IF getCurrentBudgetProfileId(user) = {}
       THEN Start(p, "bulkImportTransactions", user, args, "done", "404", NoLoc)
     ELSE \E b \in getCurrentBudgetProfileId(user) :
            Start(p, "bulkImportTransactions", user, args, "b_role", "pending",
                  [budgetProfileId |-> b])

\* lines 248-253: ensureUserRole, the empty results, the loop is entered
bulkImportTransactionsRole(p) ==
  /\ proc[p].pc = "b_role"
  /\ UNCHANGED <<Transaction, nextTransactionId, Envelope, nonLedger,
                 calls, roleCheck, datastoreError>>
  /\ LET r == ensureUserRole(proc[p].user, proc[p].loc.budgetProfileId,
                             MemberRoles)
         results == [budgetProfileId |-> proc[p].loc.budgetProfileId,
                     i |-> 1, successCount |-> 0, errorCount |-> 0,
                     errors |-> <<>>]
     IN IF r.status # "200"
          THEN proc' = [proc EXCEPT ![p].pc = "done", ![p].status = r.status]
        ELSE IF Len(proc[p].args.transactions) = 0
          THEN proc' = [proc EXCEPT ![p].pc = "done", ![p].status = "200",
                                    ![p].loc = results,
                                    ![p].ensured = TRUE]
        ELSE Ensured(p, "b_row", results)

\* mutant: a zero amount is imported like any other
amountRejected_Never(amount) == FALSE

\* lines 265-267: if (finalAmount === 0) throw
amountRejected(amount) == amount = 0

\* lines 253-287: one iteration of the loop.  A zero amount throws before
\* the create and is counted as an error, its message (here: the number of
\* the row) pushed to errors; any other row is inserted with no envelope.
\* After the last row the results are returned (line 293).
bulkImportTransactionsRow(p) ==
  /\ proc[p].pc = "b_row"
  /\ UNCHANGED <<Envelope, nonLedger, calls, roleCheck,
                 datastoreError>>
  /\ LET loc == proc[p].loc
         originalAmount == proc[p].args.transactions[loc.i]
         last == loc.i = Len(proc[p].args.transactions)
         rejected == amountRejected(finalAmount(originalAmount))
         results == [loc EXCEPT
                       !.i = @ + 1,
                       !.successCount = IF rejected THEN @ ELSE @ + 1,
                       !.errorCount = IF rejected THEN @ + 1 ELSE @,
                       !.errors = IF rejected THEN Append(@, loc.i) ELSE @]
     IN /\ IF rejected
             THEN UNCHANGED <<Transaction, nextTransactionId>>
           ELSE /\ Transaction' = InsertRow(nextTransactionId,
                     [amount |-> finalAmount(originalAmount),
                      type |-> finalType(originalAmount),
                      envelopeId |-> Null,
                      budgetProfileId |-> loc.budgetProfileId])
                /\ nextTransactionId' = nextTransactionId + 1
        /\ proc' = [proc EXCEPT
                      ![p].pc = IF last THEN "done" ELSE "b_row",
                      ![p].status = IF last THEN "200" ELSE @,
                      ![p].loc = results]

\* ------------------------------------------------- budgets/operations.ts
\* the tables the membership handlers never write
ledger == <<Transaction, nextTransactionId, Envelope>>

\* the authentication check of a handler, then getCurrentBudgetProfileId
StartInProfile(p, op, user, args, pc) ==
  IF getCurrentBudgetProfileId(user) = {}
    THEN Start(p, op, user, args, "done", "404", NoLoc)
  ELSE \E b \in getCurrentBudgetProfileId(user) :
         Start(p, op, user, args, pc, "pending", [budgetProfileId |-> b])

\* BudgetProfile.findUnique({where: {ownerId}})
OwnedProfiles(user) == {b \in DOMAIN BudgetProfile : BudgetProfile[b].ownerId = user}

\* lines 15-25: the authentication check, then the one-profile-per-owner check
createBudgetProfileStart(p, user) ==
  /\ UNCHANGED <<ledger, nonLedger, datastoreError, roleCheck>>
  /\ IF user = NoUser
       THEN Start(p, "createBudgetProfile", user, <<>>, "done", "401", NoLoc)
     ELSE IF OwnedProfiles(user) # {}
       THEN Start(p, "createBudgetProfile", user, <<>>, "done", "400", NoLoc)
     ELSE Start(p, "createBudgetProfile", user, <<>>, "p_create", "pending",
                NoLoc)

\* lines 29-46: BudgetProfile.create with the nested OWNER membership, one
\* statement; ownerId is unique
createBudgetProfileCreate(p) ==
  /\ proc[p].pc = "p_create"
  /\ UNCHANGED <<ledger, User, Invitation, calls, roleCheck>>
  /\ IF OwnedProfiles(proc[p].user) # {}
       THEN Abort(p) /\ UNCHANGED <<BudgetProfile, UserBudgetProfile, nextId>>
     ELSE /\ BudgetProfile' =
               [b \in DOMAIN BudgetProfile \cup {nextId.BudgetProfile} |->
                  IF b \in DOMAIN BudgetProfile THEN BudgetProfile[b]
                  ELSE [ownerId |-> proc[p].user]]
          /\ UserBudgetProfile' = UserBudgetProfile \cup
               {[userId |-> proc[p].user,
                 budgetProfileId |-> nextId.BudgetProfile, role |-> "OWNER"]}
          /\ nextId' = [nextId EXCEPT !.BudgetProfile = @ + 1]
          /\ proc' = [proc EXCEPT ![p].pc = "done", ![p].status = "200",
               ![p].loc = [budgetProfileId |-> nextId.BudgetProfile]]
          /\ UNCHANGED datastoreError

\* ---------------------------------------------------------------- inviteUser
\* lines 91-99: the input validation; 0 is the empty email
inviteRoleRejected(email, role) ==
  \/ email = 0 \/ role = ""
  \/ role = "OWNER"
  \/ role \notin {"ADMIN", "MEMBER"}

\* lines 85-102: authentication, validation, getCurrentBudgetProfileId
inviteUserStart(p, user, args) ==
  /\ UNCHANGED <<ledger, nonLedger, datastoreError, roleCheck>>
  /\ IF user = NoUser
       THEN Start(p, "inviteUser", user, args, "done", "401", NoLoc)
     ELSE IF inviteRoleRejected(args.email, args.role)
       THEN Start(p, "inviteUser", user, args, "done", "400", NoLoc)
     ELSE StartInProfile(p, "inviteUser", user, args, "i_role")

\* line 103: ensureUserRole ADMIN+
inviteUserRole(p) ==
  /\ proc[p].pc = "i_role"
  /\ UNCHANGED <<ledger, nonLedger, calls, roleCheck>>
  /\ LET r == ensureUserRole(proc[p].user, proc[p].loc.budgetProfileId,
                             {"ADMIN", "OWNER"})
     IN IF r.status # "200" THEN Finish(p, r.status)
        ELSE Ensured(p, "i_profile", proc[p].loc) /\ UNCHANGED datastoreError

\* lines 107-116: the profile with its owner's email
inviteUserProfile(p) ==
  /\ proc[p].pc = "i_profile"
  /\ UNCHANGED <<ledger, nonLedger, calls, roleCheck>>
  /\ LET b == proc[p].loc.budgetProfileId
     IN IF b \notin DOMAIN BudgetProfile THEN Finish(p, "404")
        ELSE IF BudgetProfile[b].ownerId = proc[p].args.email
          THEN Finish(p, "400")
        ELSE Goto(p, "i_user", proc[p].loc) /\ UNCHANGED datastoreError

\* lines 119-123: User.findUnique by email
inviteUserUser(p) ==
  /\ proc[p].pc = "i_user"
  /\ UNCHANGED <<ledger, nonLedger, calls, roleCheck, datastoreError>>
  /\ IF proc[p].args.email \in User
       THEN Goto(p, "i_link", proc[p].loc)
       ELSE Goto(p, "i_pending", proc[p].loc)

\* lines 125-131: the user exists; are they a member already
inviteUserLink(p) ==
  /\ proc[p].pc = "i_link"
  /\ UNCHANGED <<ledger, nonLedger, calls, roleCheck>>
  /\ IF findMembership(proc[p].args.email, proc[p].loc.budgetProfileId) # {}
       THEN Finish(p, "409")
       ELSE Goto(p, "i_add", proc[p].loc) /\ UNCHANGED datastoreError

\* mutant: the table has no unique index
userId_budgetProfileId_Taken_Never(userId, budgetProfileId) == FALSE

\* @@unique([userId, budgetProfileId]): an insert of the pair would be refused
userId_budgetProfileId_Taken(userId, budgetProfileId) ==
  \E m \in UserBudgetProfile :
    m.userId = userId /\ m.budgetProfileId = budgetProfileId

\* lines 134-144: UserBudgetProfile.create; (userId, budgetProfileId) is unique
inviteUserAdd(p) ==
  /\ proc[p].pc = "i_add"
  /\ UNCHANGED <<ledger, User, BudgetProfile, Invitation, nextId, calls,
                 roleCheck>>
  /\ LET b == proc[p].loc.budgetProfileId
         target == proc[p].args.email
     IN IF userId_budgetProfileId_Taken(target, b) \/ target \notin User
             \/ b \notin DOMAIN BudgetProfile
          THEN Abort(p) /\ UNCHANGED UserBudgetProfile
        ELSE /\ UserBudgetProfile' = UserBudgetProfile \cup
                  {[userId |-> target, budgetProfileId |-> b,
                    role |-> proc[p].args.role]}
             /\ Finish(p, "200")

\* Invitation.findFirst({email, budgetProfileId, status: 'PENDING'})
PendingInvitations(email, b) ==
  {i \in DOMAIN Invitation :
     /\ Invitation[i].email = email
     /\ Invitation[i].budgetProfileId = b
     /\ Invitation[i].status = "PENDING"}

\* lines 150-162: no user has the email; is an invitation pending already
inviteUserPending(p) ==
  /\ proc[p].pc = "i_pending"
  /\ UNCHANGED <<ledger, nonLedger, calls, roleCheck>>
  /\ IF PendingInvitations(proc[p].args.email, proc[p].loc.budgetProfileId) # {}
       THEN Finish(p, "409")
       ELSE Goto(p, "i_create", proc[p].loc) /\ UNCHANGED datastoreError

\* lines 165-200: Invitation.create with a fresh token; the email is sent,
\* a failure to send is logged and ignored
inviteUserCreate(p) ==
  /\ proc[p].pc = "i_create"
  /\ UNCHANGED <<ledger, User, BudgetProfile, UserBudgetProfile, calls,
                 roleCheck>>
  /\ IF proc[p].loc.budgetProfileId \notin DOMAIN BudgetProfile
       THEN Abort(p) /\ UNCHANGED <<Invitation, nextId>>
     ELSE /\ Invitation' =
               [i \in DOMAIN Invitation \cup {nextId.Invitation} |->
                  IF i \in DOMAIN Invitation THEN Invitation[i]
                  ELSE [email |-> proc[p].args.email,
                        budgetProfileId |-> proc[p].loc.budgetProfileId,
                        role |-> proc[p].args.role,
                        status |-> "PENDING", expired |-> FALSE]]
          /\ nextId' = [nextId EXCEPT !.Invitation = @ + 1]
          /\ Finish(p, "200")

\* ---------------------------------------------------------- updateMemberRole
\* mutant: any role of the hierarchy accepted as the new role
newRoleRejected_OwnerAllowed(newRole) ==
  newRole \notin {"ADMIN", "MEMBER", "OWNER"}

\* lines 285-287
newRoleRejected(newRole) == newRole \notin {"ADMIN", "MEMBER"}

\* lines 278-290: authentication, validation, getCurrentBudgetProfileId
updateMemberRoleStart(p, user, args) ==
  /\ UNCHANGED <<ledger, nonLedger, datastoreError, roleCheck>>
  /\ IF user = NoUser
       THEN Start(p, "updateMemberRole", user, args, "done", "401", NoLoc)
     ELSE IF newRoleRejected(args.newRole)
       THEN Start(p, "updateMemberRole", user, args, "done", "400", NoLoc)
     ELSE StartInProfile(p, "updateMemberRole", user, args, "m_role")

\* the handler keeps the caller's membership row that ensureUserRole returns
KeepLink(p, nextPc) ==
  LET r == ensureUserRole(proc[p].user, proc[p].loc.budgetProfileId,
                          {"ADMIN", "OWNER"})
  IN IF r.status # "200" THEN Finish(p, r.status)
     ELSE /\ Ensured(p, nextPc,
                  [budgetProfileId |-> proc[p].loc.budgetProfileId,
                   currentUserLink |-> CHOOSE m \in r.row : TRUE])
          /\ UNCHANGED datastoreError

\* line 294: ensureUserRole ADMIN+
updateMemberRoleRole(p) ==
  /\ proc[p].pc = "m_role"
  /\ UNCHANGED <<ledger, nonLedger, calls, roleCheck>>
  /\ KeepLink(p, "m_target")

\* mutant: an ADMIN may change another ADMIN
adminMayNotChange_SelfOnly(currentUserLink, targetUserLink) ==
  /\ currentUserLink.role = "ADMIN"
  /\ currentUserLink.userId = targetUserLink.userId

\* line 318: an ADMIN changes neither another ADMIN nor themselves
adminMayNotChange(currentUserLink, targetUserLink) ==
  /\ currentUserLink.role = "ADMIN"
  /\ \/ targetUserLink.role = "ADMIN"
     \/ currentUserLink.userId = targetUserLink.userId

\* mutant: the owner's own change is let through by the owner checks
ownerMayNotChange_Never(currentUserLink, targetUserLink) == FALSE

\* lines 308-315: the OWNER's role is not changed, by the owner or anyone
ownerMayNotChange(currentUserLink, targetUserLink) ==
  \/ targetUserLink.role = "OWNER"
  \/ /\ currentUserLink.role = "OWNER"
     /\ currentUserLink.userId = targetUserLink.userId

\* lines 297-320: the target's membership row, then the policy checks
updateMemberRoleTarget(p) ==
  /\ proc[p].pc = "m_target"
  /\ UNCHANGED <<ledger, nonLedger, calls, roleCheck>>
  /\ LET found == findMembership(proc[p].args.userId,
                                 proc[p].loc.budgetProfileId)
         current == proc[p].loc.currentUserLink
     IN IF found = {} THEN Finish(p, "404")
        ELSE LET targetUserLink == CHOOSE m \in found : TRUE
             IN IF ownerMayNotChange(current, targetUserLink)
                  THEN Finish(p, "403")
                ELSE IF adminMayNotChange(current, targetUserLink)
                  THEN Finish(p, "403")
                ELSE Goto(p, "m_update", proc[p].loc)
                       /\ UNCHANGED datastoreError

\* lines 323-328: UserBudgetProfile.update by the compound key
updateMemberRoleUpdate(p) ==
  /\ proc[p].pc = "m_update"
  /\ UNCHANGED <<ledger, User, BudgetProfile, Invitation, nextId, calls,
                 roleCheck>>
  /\ LET found == findMembership(proc[p].args.userId,
                                 proc[p].loc.budgetProfileId)
     IN IF found = {} THEN Abort(p) /\ UNCHANGED UserBudgetProfile
        ELSE /\ UserBudgetProfile' = (UserBudgetProfile \ found) \cup
                  {[m EXCEPT !.role = proc[p].args.newRole] : m \in found}
             /\ Finish(p, "200")

\* -------------------------------------------------------------- removeMember
\* mutant: removing oneself is let through
removesSelf_Never(currentUserId, targetUserId) == FALSE

\* lines 346-348
removesSelf(currentUserId, targetUserId) == currentUserId = targetUserId

\* lines 339-351: authentication, the self check, getCurrentBudgetProfileId
removeMemberStart(p, user, args) ==
  /\ UNCHANGED <<ledger, nonLedger, datastoreError, roleCheck>>
  /\ IF user = NoUser
       THEN Start(p, "removeMember", user, args, "done", "401", NoLoc)
     ELSE IF removesSelf(user, args.userId)
       THEN Start(p, "removeMember", user, args, "done", "400", NoLoc)
     ELSE StartInProfile(p, "removeMember", user, args, "r_role")

\* line 354: ensureUserRole ADMIN+
removeMemberRole(p) ==
  /\ proc[p].pc = "r_role"
  /\ UNCHANGED <<ledger, nonLedger, calls, roleCheck>>
  /\ KeepLink(p, "r_target")

\* lines 357-375: the target's membership row, then the policy checks
removeMemberTarget(p) ==
  /\ proc[p].pc = "r_target"
  /\ UNCHANGED <<ledger, nonLedger, calls, roleCheck>>
  /\ LET found == findMembership(proc[p].args.userId,
                                 proc[p].loc.budgetProfileId)
         current == proc[p].loc.currentUserLink
     IN IF found = {} THEN Finish(p, "404")
        ELSE LET targetUserLink == CHOOSE m \in found : TRUE
             IN IF targetUserLink.role = "OWNER" THEN Finish(p, "403")
                ELSE IF current.role = "ADMIN" /\ targetUserLink.role = "ADMIN"
                  THEN Finish(p, "403")
                ELSE Goto(p, "r_delete", proc[p].loc)
                       /\ UNCHANGED datastoreError

\* lines 378-382: UserBudgetProfile.delete by the compound key
removeMemberDelete(p) ==
  /\ proc[p].pc = "r_delete"
  /\ UNCHANGED <<ledger, User, BudgetProfile, Invitation, nextId, calls,
                 roleCheck>>
  /\ LET found == findMembership(proc[p].args.userId,
                                 proc[p].loc.budgetProfileId)
     IN IF found = {} THEN Abort(p) /\ UNCHANGED UserBudgetProfile
        ELSE /\ UserBudgetProfile' = UserBudgetProfile \ found
             /\ Finish(p, "200")

\* ---------------------------------------------------------- revokeInvitation
\* lines 238-252: authentication, then Invitation.findUnique
revokeInvitationStart(p, user, args) ==
  /\ UNCHANGED <<ledger, nonLedger, datastoreError, roleCheck>>
  /\ IF user = NoUser
       THEN Start(p, "revokeInvitation", user, args, "done", "401", NoLoc)
     ELSE IF args.invitationId \notin DOMAIN Invitation
       THEN Start(p, "revokeInvitation", user, args, "done", "404", NoLoc)
     ELSE Start(p, "revokeInvitation", user, args, "v_role", "pending",
                [invitation |-> Invitation[args.invitationId]])

\* lines 255-260: ensureUserRole ADMIN+ on the invitation's profile, then the
\* status check
revokeInvitationRole(p) ==
  /\ proc[p].pc = "v_role"
  /\ UNCHANGED <<ledger, nonLedger, calls, roleCheck>>
  /\ LET invitation == proc[p].loc.invitation
         r == ensureUserRole(proc[p].user, invitation.budgetProfileId,
                             {"ADMIN", "OWNER"})
     IN IF r.status # "200" THEN Finish(p, r.status)
        ELSE IF invitation.status # "PENDING" THEN EnsuredFinish(p, "400")
        ELSE Ensured(p, "v_delete", proc[p].loc) /\ UNCHANGED datastoreError

\* the invitation row is locked by the uncommitted update of a signup hook
RowLocked(i) ==
  \E q \in Procs : proc[q].pc = "s_link" /\ proc[q].loc.invitation = i

\* lines 264-269: Invitation.delete, which waits for a locked row
revokeInvitationDelete(p) ==
  /\ proc[p].pc = "v_delete"
  /\ ~RowLocked(proc[p].args.invitationId)
  /\ UNCHANGED <<ledger, User, BudgetProfile, UserBudgetProfile, nextId,
                 calls, roleCheck>>
  /\ IF proc[p].args.invitationId \notin DOMAIN Invitation
       THEN Abort(p) /\ UNCHANGED Invitation
     ELSE /\ Invitation' =
               [i \in DOMAIN Invitation \ {proc[p].args.invitationId} |->
                  Invitation[i]]
          /\ Finish(p, "200")

\* ------------------------------------------------------ signup (auth hooks)
\* onBeforeSignup, lines 19-59 of the hooks: without a token the signup
\* proceeds; with one, the PENDING invitation of that token must exist, be
\* unexpired and carry the signup email
signupStart(p, args) ==
  /\ UNCHANGED <<ledger, nonLedger, datastoreError, roleCheck>>
  /\ LET token == args.inviteToken
         valid == /\ token \in DOMAIN Invitation
                  /\ Invitation[token].status = "PENDING"
                  /\ ~Invitation[token].expired
                  /\ Invitation[token].email = args.email
     IN IF token # Null /\ ~valid
          THEN Start(p, "signup", NoUser, args, "done", "400", NoLoc)
        ELSE Start(p, "signup", NoUser, args, "s_user", "pending", NoLoc)

\* the framework creates the user; User.email is unique
signupUser(p) ==
  /\ proc[p].pc = "s_user"
  /\ UNCHANGED <<ledger, BudgetProfile, UserBudgetProfile, Invitation, nextId,
                 calls, roleCheck>>
  /\ IF proc[p].args.email \in User
       THEN Finish(p, "422") /\ UNCHANGED User
     ELSE /\ User' = User \cup {proc[p].args.email}
          /\ Goto(p, "s_accept", proc[p].loc)
          /\ UNCHANGED datastoreError

\* the invitations updateInvitationStatus may find: PENDING, unexpired, for
\* the email, of any profile
AcceptableInvitations(email) ==
  {i \in DOMAIN Invitation :
     /\ Invitation[i].email = email
     /\ Invitation[i].status = "PENDING"
     /\ ~Invitation[i].expired}

\* updateInvitationStatus, lines 66-109 of the hooks, inside one $transaction:
\* the first invitation found is updated to ACCEPTED and the user's link to
\* its profile is looked up.  With a link found nothing is left to do and
\* the transaction commits; otherwise the update stays uncommitted until the
\* link has been created.
signupAccept(p) ==
  /\ proc[p].pc = "s_accept"
  /\ UNCHANGED <<ledger, User, BudgetProfile, UserBudgetProfile, nextId,
                 calls, roleCheck, datastoreError>>
  /\ LET user == proc[p].args.email
     IN IF AcceptableInvitations(user) = {}
          THEN /\ UNCHANGED Invitation
               /\ proc' = [proc EXCEPT ![p].pc = "done", ![p].status = "200"]
        ELSE \E i \in AcceptableInvitations(user) :
               IF findMembership(user, Invitation[i].budgetProfileId) # {}
                 THEN /\ Invitation' =
                           [Invitation EXCEPT ![i].status = "ACCEPTED"]
                      /\ proc' = [proc EXCEPT ![p].pc = "done",
                                              ![p].status = "200",
                                              ![p].loc = [invitation |-> i]]
               ELSE /\ UNCHANGED Invitation
                    /\ Goto(p, "s_link", [invitation |-> i])

\* lines 110-125: userBudgetProfile.create and the commit.  When the create
\* throws (the link exists by now) the transaction is rolled back, the
\* invitation stays as it was, and the error is logged and swallowed.
signupLink(p) ==
  /\ proc[p].pc = "s_link"
  /\ UNCHANGED <<ledger, User, BudgetProfile, nextId, calls, roleCheck>>
  /\ LET user == proc[p].args.email
         i == proc[p].loc.invitation
     IN IF \/ i \notin DOMAIN Invitation
           \/ userId_budgetProfileId_Taken(user,
                                           Invitation[i].budgetProfileId)
          THEN UNCHANGED <<Invitation, UserBudgetProfile>>
        ELSE /\ Invitation' = [Invitation EXCEPT ![i].status = "ACCEPTED"]
             /\ UserBudgetProfile' = UserBudgetProfile \cup
                  {[userId |-> user,
                    budgetProfileId |-> Invitation[i].budgetProfileId,
                    role |-> Invitation[i].role]}
  /\ Finish(p, "200")

\* time passes beyond the expiresAt of an invitation
invitationExpires(i) ==
  /\ i \in DOMAIN Invitation
  /\ ~Invitation[i].expired
  /\ Invitation' = [Invitation EXCEPT ![i].expired = TRUE]
  /\ UNCHANGED <<ledger, User, BudgetProfile, UserBudgetProfile, nextId,
                 proc, calls, datastoreError, roleCheck>>

\* ------------------------------------------------------------ envelopes
\* the tables and counters no envelope handler writes
nonEnvelope == <<nextTransactionId, User, BudgetProfile, UserBudgetProfile,
                 Invitation>>

\* mutant: the profile is looked up without the authentication check
getUserBudgetProfileId_NoAuthCheck(user) ==
  IF OwnedProfiles(user) = {} THEN [status |-> "404", id |-> 0]
  ELSE [status |-> "200", id |-> CHOOSE b \in OwnedProfiles(user) : TRUE]

\* lines 11-26: the authentication check, then the profile the caller OWNS
\* (ownerId is unique); no membership is read
getUserBudgetProfileId(user) ==
  IF user = NoUser THEN [status |-> "401", id |-> 0]
  ELSE IF OwnedProfiles(user) = {} THEN [status |-> "404", id |-> 0]
  ELSE [status |-> "200", id |-> CHOOSE b \in OwnedProfiles(user) : TRUE]

\* the first line of the three actions: await getUserBudgetProfileId(context)
StartOwnProfile(p, op, user, args, pc) ==
  LET r == getUserBudgetProfileId(user)
  IN IF r.status # "200"
       THEN Start(p, op, user, args, "done", r.status, NoLoc)
     ELSE Start(p, op, user, args, pc, "pending", [budgetProfileId |-> r.id])

\* args.amount || 0
amountOrZero(amount) == IF amount \in {Null, 0} THEN 0 ELSE amount

\* line 47: getUserBudgetProfileId
createEnvelopeStart(p, user, args) ==
  /\ UNCHANGED <<Transaction, Envelope, nextId, nonEnvelope, datastoreError,
                 roleCheck>>
  /\ StartOwnProfile(p, "createEnvelope", user, args, "e_create")

\* lines 49-60: Envelope.create, connected to the caller's own profile
createEnvelopeCreate(p) ==
  /\ proc[p].pc = "e_create"
  /\ UNCHANGED <<Transaction, nonEnvelope, calls, roleCheck>>
  /\ Envelope' = [e \in DOMAIN Envelope \cup {nextId.Envelope} |->
       IF e = nextId.Envelope
         THEN [budgetProfileId |-> proc[p].loc.budgetProfileId,
               amount |-> amountOrZero(proc[p].args.amount), spent |-> 0]
         ELSE Envelope[e]]
  /\ nextId' = [nextId EXCEPT !.Envelope = @ + 1]
  /\ Finish(p, "200")

\* lines 66-67: getUserBudgetProfileId
updateEnvelopeStart(p, user, args) ==
  /\ UNCHANGED <<Transaction, Envelope, nextId, nonEnvelope, datastoreError,
                 roleCheck>>
  /\ StartOwnProfile(p, "updateEnvelope", user, args, "ue_find")

\* lines 70-79: Envelope.findFirst by id and profile
updateEnvelopeFind(p) ==
  /\ proc[p].pc = "ue_find"
  /\ UNCHANGED <<Transaction, Envelope, nextId, nonEnvelope, calls,
                 roleCheck>>
  /\ LET id == proc[p].args.id
     IN IF id \in DOMAIN Envelope
           /\ Envelope[id].budgetProfileId = proc[p].loc.budgetProfileId
          THEN Goto(p, "ue_update", proc[p].loc) /\ UNCHANGED datastoreError
        ELSE Finish(p, "404")

\* lines 81-84: Envelope.update with the fields given; throws when the
\* envelope is gone
updateEnvelopeUpdate(p) ==
  /\ proc[p].pc = "ue_update"
  /\ UNCHANGED <<Transaction, nextId, nonEnvelope, calls, roleCheck>>
  /\ LET id == proc[p].args.id
     IN IF id \notin DOMAIN Envelope THEN Abort(p) /\ UNCHANGED Envelope
        ELSE /\ Envelope' = [Envelope EXCEPT ![id].amount =
                   IF proc[p].args.amount = Null THEN @
                   ELSE proc[p].args.amount]
             /\ Finish(p, "200")

\* lines 90-91: getUserBudgetProfileId
deleteEnvelopeStart(p, user, args) ==
  /\ UNCHANGED <<Transaction, Envelope, nextId, nonEnvelope, datastoreError,
                 roleCheck>>
  /\ StartOwnProfile(p, "deleteEnvelope", user, args, "de_find")

\* _count.transactions of the envelope
LinkedTransactions(id) ==
  {i \in DOMAIN Transaction : Transaction[i].envelopeId = id}

\* lines 94-110: Envelope.findFirst with the count of its transactions
deleteEnvelopeFind(p) ==
  /\ proc[p].pc = "de_find"
  /\ UNCHANGED <<Transaction, Envelope, nextId, nonEnvelope, calls,
                 roleCheck>>
  /\ LET id == proc[p].args.id
     IN IF ~(id \in DOMAIN Envelope
             /\ Envelope[id].budgetProfileId = proc[p].loc.budgetProfileId)
          THEN Finish(p, "404")
        ELSE IF Cardinality(LinkedTransactions(id)) > 0
          THEN Finish(p, "400")
        ELSE Goto(p, "de_delete", proc[p].loc) /\ UNCHANGED datastoreError

\* the referential action of Transaction.envelopeId: ON DELETE SET NULL
OnDeleteSetNull(id) ==
  [i \in DOMAIN Transaction |->
     IF Transaction[i].envelopeId = id
       THEN [Transaction[i] EXCEPT !.envelopeId = Null]
       ELSE Transaction[i]]

\* lines 113-115: Envelope.delete; the datastore applies the referential
\* action to the rows that link the envelope at that moment (kept in
\* loc.setNull); throws when the envelope is gone
deleteEnvelopeDelete(p) ==
  /\ proc[p].pc = "de_delete"
  /\ UNCHANGED <<nextId, nonEnvelope, calls, roleCheck>>
  /\ LET id == proc[p].args.id
     IN IF id \notin DOMAIN Envelope
          THEN Abort(p) /\ UNCHANGED <<Transaction, Envelope>>
        ELSE /\ Envelope' = [e \in DOMAIN Envelope \ {id} |-> Envelope[e]]
             /\ Transaction' = OnDeleteSetNull(id)
             /\ proc' = [proc EXCEPT ![p].pc = "done", ![p].status = "200",
                  ![p].loc = [budgetProfileId |-> @.budgetProfileId,
                              setNull |-> LinkedTransactions(id)]]
             /\ UNCHANGED datastoreError

\* -------------------------------------------------------------- queries
\* transactions lines 22-23: getCurrentBudgetProfileId, which makes the
\* authentication check itself (permissions lines 23-25)
getTransactionsStart(p, user) ==
  /\ UNCHANGED <<ledger, nonLedger, datastoreError, roleCheck>>
  /\ IF user = NoUser
       THEN Start(p, "getTransactions", user, <<>>, "done", "401", NoLoc)
     ELSE StartInProfile(p, "getTransactions", user, <<>>, "q_find")

\* transactions lines 25-35: Transaction.findMany of the profile
getTransactionsFind(p) ==
  /\ proc[p].pc = "q_find"
  /\ UNCHANGED <<ledger, nonLedger, calls, roleCheck>>
  /\ Finish(p, "200")

\* envelopes lines 30-31: getUserBudgetProfileId
getEnvelopesStart(p, user) ==
  /\ UNCHANGED <<ledger, nonLedger, datastoreError, roleCheck>>
  /\ StartOwnProfile(p, "getEnvelopes", user, <<>>, "g_find")

\* envelopes lines 33-39: Envelope.findMany of the profile
getEnvelopesFind(p) ==
  /\ proc[p].pc = "g_find"
  /\ UNCHANGED <<ledger, nonLedger, calls, roleCheck>>
  /\ Finish(p, "200")

\* ------------------------------------------------------ datastore failures
\* the positions at which a handler awaits a datastore write
WritePcs == {"c_insert", "c_spent", "u_transfer", "u_revert", "u_row",
             "u_apply", "d_revert", "d_row"}

\* the awaited write is rejected by the datastore (connection lost, statement
\* timed out); nothing of it is committed
datastoreFailure(p) ==
  /\ proc[p].pc \in WritePcs
  /\ Abort(p)
  /\ UNCHANGED <<Transaction, nextTransactionId, Envelope, nonLedger,
                 calls, roleCheck>>

\* the response has been sent; the task takes the next request
Return(p) ==
  /\ proc[p].pc = "done"
  /\ proc' = [proc EXCEPT ![p] = IdleProc]
  /\ UNCHANGED <<Transaction, nextTransactionId, Envelope, nonLedger,
                 calls, datastoreError, roleCheck>>

\* --------------------------------------------------------- specifications
Init ==
  /\ \E l \in InitialLedgers :
       /\ Transaction = l.tx
       /\ nextTransactionId = Cardinality(DOMAIN l.tx) + 1
       /\ Envelope = l.env
  /\ UserBudgetProfile = InitialUserBudgetProfile
  /\ User = Users
  /\ BudgetProfile = InitialBudgetProfile
  /\ Invitation = InitialInvitation
  /\ nextId = [Envelope |-> 4, BudgetProfile |-> 3, Invitation |-> 2]
  /\ proc = [p \in Procs |-> IdleProc]
  /\ calls = 0
  /\ datastoreError = FALSE
  /\ roleCheck = NoRoleCheck

Step(p) ==
  \/ createTransactionRole(p)
  \/ createTransactionInsert(p)
  \/ createTransactionSpent(p)
  \/ updateTransactionRole(p)
  \/ updateTransactionTransfer(p)
  \/ updateTransactionRevert(p)
  \/ updateTransactionRow(p)
  \/ updateTransactionApply(p)
  \/ deleteTransactionRole(p)
  \/ deleteTransactionRevert(p)
  \/ deleteTransactionRow(p)
  \/ Return(p)

\* an idle server task takes a request
Idle(p) == proc[p].pc = "idle" /\ calls < MaxCalls

Request(p, callers, envelopeIds) ==
  \/ /\ Idle(p)
     /\ \E user \in callers, args \in CreateInputs(envelopeIds) :
          createTransactionStart(p, user, args)
  \/ /\ Idle(p)
     /\ \E user \in callers, id \in TransactionIdInputs,
           u \in UpdateDatas(envelopeIds) :
          updateTransactionStart(p, user, [id |-> id, updateData |-> u])
  \/ /\ Idle(p)
     /\ \E user \in callers, id \in TransactionIdInputs :
          deleteTransactionStart(p, user, [id |-> id])

\* unauthenticated, a MEMBER of profile 1, a user with no membership
LedgerCallers == {NoUser, 3, 5}

\* requests are served one at a time, by one server task
Next ==
  \/ Request("a", LedgerCallers, EnvelopeIdInputs)
  \/ Step("a")

Spec == Init /\ [][Next]_vars

\* requests of members are served concurrently, interleaved at the
\* datastore calls
ConcurrentNext ==
  \E p \in Procs :
    \/ Request(p, {3}, {Null, 1, 2})
    \/ Step(p)

ConcurrentSpec == Init /\ [][ConcurrentNext]_vars

\* --------------------------- requests one at a time, over a failing datastore
FaultNext ==
  \/ Request("a", {3}, {Null, 1, 2})
  \/ Step("a")
  \/ datastoreFailure("a")

FaultSpec == Init /\ [][FaultNext]_vars

\* ------------- envelope deletion concurrent with the linking of transactions
\* the envelopes of profile 1
OwnEnvelopeIds == {1, 2}

\* a change of the envelope alone, or of the envelope and the amount
LinkUpdates ==
  {Restrict([type |-> "EXPENSE", amount |-> a, envelopeId |-> e], S) :
     a \in {30}, e \in OwnEnvelopeIds,
     S \in {{"envelopeId"}, {"envelopeId", "amount"}}}

\* the OWNER of profile 1 deletes envelopes while its MEMBER creates and
\* updates transactions
EnvelopeRequest(p) ==
  \/ /\ Idle(p)
     /\ \E id \in OwnEnvelopeIds : deleteEnvelopeStart(p, 1, [id |-> id])
  \/ /\ Idle(p)
     /\ \E args \in CreateInputs(OwnEnvelopeIds) :
          createTransactionStart(p, 3, args)
  \/ /\ Idle(p)
     /\ \E id \in TransactionIdInputs, u \in LinkUpdates :
          updateTransactionStart(p, 3, [id |-> id, updateData |-> u])

EnvelopeStep(p) ==
  \/ deleteEnvelopeFind(p)
  \/ deleteEnvelopeDelete(p)
  \/ createTransactionRole(p)
  \/ createTransactionInsert(p)
  \/ createTransactionSpent(p)
  \/ updateTransactionRole(p)
  \/ updateTransactionTransfer(p)
  \/ updateTransactionRevert(p)
  \/ updateTransactionRow(p)
  \/ updateTransactionApply(p)
  \/ Return(p)

EnvelopeNext ==
  \E p \in Procs :
    \/ EnvelopeRequest(p)
    \/ EnvelopeStep(p)

EnvelopeSpec == Init /\ [][EnvelopeNext]_vars

\* -------------------------------------- membership management, one at a time
\* unauthenticated, the OWNER, the ADMIN and the MEMBER of profile 1, a user
\* with no membership
MemberCallers == {NoUser, 1, 2, 3, 5}

\* the members of profile 1 and the owner of profile 2
UserIdInputs == {1, 2, 3, 4}

NewRoleInputs == {"MEMBER", "ADMIN", "OWNER"}

\* the empty email, the owner's, a member's, a user's without membership,
\* an invited address, an unknown address
EmailInputs == {0, 1, 3, 5, 6, 7}

InviteRoleInputs == {"", "MEMBER", "ADMIN", "OWNER", "VIEWER"}

\* the ids of the invitations, and one id that names no invitation
InvitationIdInputs == DOMAIN Invitation \cup {nextId.Invitation}

SignupEmails == {6, 7}

MemberRequest(p) ==
  \/ /\ Idle(p)
     /\ \E user \in MemberCallers : createBudgetProfileStart(p, user)
  \/ /\ Idle(p)
     /\ \E user \in MemberCallers, email \in EmailInputs,
           role \in InviteRoleInputs :
          inviteUserStart(p, user, [email |-> email, role |-> role])
  \/ /\ Idle(p)
     /\ \E user \in MemberCallers, userId \in UserIdInputs,
           newRole \in NewRoleInputs :
          updateMemberRoleStart(p, user,
                                [userId |-> userId, newRole |-> newRole])
  \/ /\ Idle(p)
     /\ \E user \in MemberCallers, userId \in UserIdInputs :
          removeMemberStart(p, user, [userId |-> userId])
  \/ /\ Idle(p)
     /\ \E user \in MemberCallers, id \in InvitationIdInputs :
          revokeInvitationStart(p, user, [invitationId |-> id])
  \/ /\ Idle(p)
     /\ \E email \in SignupEmails, token \in {Null} \cup InvitationIdInputs :
          signupStart(p, [email |-> email, inviteToken |-> token])

MemberStep(p) ==
  \/ createBudgetProfileCreate(p)
  \/ inviteUserRole(p)
  \/ inviteUserProfile(p)
  \/ inviteUserUser(p)
  \/ inviteUserLink(p)
  \/ inviteUserAdd(p)
  \/ inviteUserPending(p)
  \/ inviteUserCreate(p)
  \/ updateMemberRoleRole(p)
  \/ updateMemberRoleTarget(p)
  \/ updateMemberRoleUpdate(p)
  \/ removeMemberRole(p)
  \/ removeMemberTarget(p)
  \/ removeMemberDelete(p)
  \/ revokeInvitationRole(p)
  \/ revokeInvitationDelete(p)
  \/ signupUser(p)
  \/ signupAccept(p)
  \/ signupLink(p)
  \/ Return(p)

MemberNext ==
  \/ MemberRequest("a")
  \/ MemberStep("a")
  \/ \E i \in DOMAIN Invitation : invitationExpires(i)

\* the membership handlers never read the ledger: it starts empty
MemberInit == Init /\ Transaction = [i \in {} |-> 0]

MemberSpec == MemberInit /\ [][MemberNext]_vars

\* ------------------------------------- every operation, served one at a time
\* unauthenticated, the OWNER of profile 1, its ADMIN and its MEMBER
AppCallers == {NoUser, 1, 2, 3}

\* an EXPENSE on envelope 1, an unassigned one, a TRANSFER
AppCreateInputs ==
  {[amount |-> 30, type |-> t, envelopeId |-> e] :
     t \in {"EXPENSE", "TRANSFER"}, e \in {Null, 1}}

\* a new amount, a move to envelope 2 as an EXPENSE
AppUpdateDatas ==
  {[amount |-> 50], [type |-> "EXPENSE", envelopeId |-> 2]}

\* no row, an expense and a row that is rejected
AppBatches == {<<>>, <<-20, 0>>}

\* a user without membership as MEMBER, an unknown address as ADMIN, and
\* two invalid inputs
AppInvites ==
  {[email |-> 5, role |-> "MEMBER"], [email |-> 7, role |-> "ADMIN"],
   [email |-> 0, role |-> "MEMBER"], [email |-> 7, role |-> "OWNER"]}

AppRequest(p) ==
  \/ /\ Idle(p)
     /\ \E user \in AppCallers, args \in AppCreateInputs :
          createTransactionStart(p, user, args)
  \/ /\ Idle(p)
     /\ \E user \in AppCallers, id \in TransactionIdInputs,
           u \in AppUpdateDatas :
          updateTransactionStart(p, user, [id |-> id, updateData |-> u])
  \/ /\ Idle(p)
     /\ \E user \in AppCallers, id \in TransactionIdInputs :
          deleteTransactionStart(p, user, [id |-> id])
  \/ /\ Idle(p)
     /\ \E user \in AppCallers, transactions \in AppBatches :
          bulkImportTransactionsStart(p, user,
                                      [transactions |-> transactions])
  \/ /\ Idle(p)
     /\ \E user \in AppCallers : getTransactionsStart(p, user)
  \/ /\ Idle(p)
     /\ \E user \in AppCallers : getEnvelopesStart(p, user)
  \/ /\ Idle(p)
     /\ \E user \in AppCallers, amount \in {Null, 50} :
          createEnvelopeStart(p, user, [amount |-> amount])
  \/ /\ Idle(p)
     /\ \E user \in AppCallers, id \in {2, 3} :
          updateEnvelopeStart(p, user, [id |-> id, amount |-> 50])
  \/ /\ Idle(p)
     /\ \E user \in AppCallers, id \in {1, 2} :
          deleteEnvelopeStart(p, user, [id |-> id])
  \/ /\ Idle(p)
     /\ \E user \in AppCallers : createBudgetProfileStart(p, user)
  \/ /\ Idle(p)
     /\ \E user \in AppCallers, args \in AppInvites :
          inviteUserStart(p, user, args)
  \/ /\ Idle(p)
     /\ \E user \in AppCallers, userId \in {2, 3},
           newRole \in {"MEMBER", "ADMIN", "OWNER"} :
          updateMemberRoleStart(p, user,
                                [userId |-> userId, newRole |-> newRole])
  \/ /\ Idle(p)
     /\ \E user \in AppCallers, userId \in {1, 3} :
          removeMemberStart(p, user, [userId |-> userId])
  \/ /\ Idle(p)
     /\ \E user \in AppCallers, id \in InvitationIdInputs :
          revokeInvitationStart(p, user, [invitationId |-> id])

AppStep(p) ==
  \/ createTransactionRole(p)
  \/ createTransactionInsert(p)
  \/ createTransactionSpent(p)
  \/ updateTransactionRole(p)
  \/ updateTransactionTransfer(p)
  \/ updateTransactionRevert(p)
  \/ updateTransactionRow(p)
  \/ updateTransactionApply(p)
  \/ deleteTransactionRole(p)
  \/ deleteTransactionRevert(p)
  \/ deleteTransactionRow(p)
  \/ bulkImportTransactionsRole(p)
  \/ bulkImportTransactionsRow(p)
  \/ getTransactionsFind(p)
  \/ getEnvelopesFind(p)
  \/ createEnvelopeCreate(p)
  \/ updateEnvelopeFind(p)
  \/ updateEnvelopeUpdate(p)
  \/ deleteEnvelopeFind(p)
  \/ deleteEnvelopeDelete(p)
  \/ createBudgetProfileCreate(p)
  \/ inviteUserRole(p)
  \/ inviteUserProfile(p)
  \/ inviteUserUser(p)
  \/ inviteUserLink(p)
  \/ inviteUserAdd(p)
  \/ inviteUserPending(p)
  \/ inviteUserCreate(p)
  \/ updateMemberRoleRole(p)
  \/ updateMemberRoleTarget(p)
  \/ updateMemberRoleUpdate(p)
  \/ removeMemberRole(p)
  \/ removeMemberTarget(p)
  \/ removeMemberDelete(p)
  \/ revokeInvitationRole(p)
  \/ revokeInvitationDelete(p)
  \/ Return(p)

AppNext ==
  \/ AppRequest("a")
  \/ AppStep("a")

AppSpec == Init /\ [][AppNext]_vars

\* ------------------------- invitations and signups, served concurrently
\* a user without membership, the invited address, an unknown address
InviteEmails == {5, 6, 7}

\* the OWNER and the ADMIN of profile 1 invite and revoke while the invited
\* sign up, interleaved at the datastore calls
InviteRequest(p) ==
  \/ /\ Idle(p)
     /\ \E user \in {1, 2}, email \in InviteEmails,
           role \in {"MEMBER", "ADMIN"} :
          inviteUserStart(p, user, [email |-> email, role |-> role])
  \/ /\ Idle(p)
     /\ \E id \in InvitationIdInputs :
          revokeInvitationStart(p, 1, [invitationId |-> id])
  \/ /\ Idle(p)
     /\ \E email \in SignupEmails, token \in {Null} \cup InvitationIdInputs :
          signupStart(p, [email |-> email, inviteToken |-> token])

InviteStep(p) ==
  \/ inviteUserRole(p)
  \/ inviteUserProfile(p)
  \/ inviteUserUser(p)
  \/ inviteUserLink(p)
  \/ inviteUserAdd(p)
  \/ inviteUserPending(p)
  \/ inviteUserCreate(p)
  \/ revokeInvitationRole(p)
  \/ revokeInvitationDelete(p)
  \/ signupUser(p)
  \/ signupAccept(p)
  \/ signupLink(p)
  \/ Return(p)

InviteNext ==
  \E p \in Procs :
    \/ InviteRequest(p)
    \/ InviteStep(p)

InviteSpec == MemberInit /\ [][InviteNext]_vars

\* ------------------------------------------------ bulk import, one at a time
\* the parsed amounts of the rows: an expense, a zero, an income
BulkAmounts == {-20, 0, 15}

\* every batch of at most MaxBatch rows
Batches == UNION {[1..n -> BulkAmounts] : n \in 0..MaxBatch}

BulkNext ==
  \/ /\ Idle("a")
     /\ \E user \in LedgerCallers, transactions \in Batches :
          bulkImportTransactionsStart("a", user,
                                      [transactions |-> transactions])
  \/ bulkImportTransactionsRole("a")
  \/ bulkImportTransactionsRow("a")
  \/ Return("a")

BulkSpec == Init /\ [][BulkNext]_vars

\* ------------------------------------- amounts as the callers may send them
\* the handlers take the amount as it is sent: a negative one, zero, a
\* positive one
SignedAmounts == {-50, 0, 30}

SignedCreateInputs ==
  [amount : SignedAmounts, type : {"EXPENSE", "INCOME"},
   envelopeId : {Null, 1}]

\* a new amount, or a move to envelope 2
SignedUpdateDatas ==
  {[amount |-> a] : a \in SignedAmounts} \cup {[envelopeId |-> 2]}

\* the MEMBER of profile 1 creates, updates and imports, one call at a time
AmountNext ==
  \/ /\ Idle("a")
     /\ \E args \in SignedCreateInputs : createTransactionStart("a", 3, args)
  \/ /\ Idle("a")
     /\ \E id \in TransactionIdInputs, u \in SignedUpdateDatas :
          updateTransactionStart("a", 3, [id |-> id, updateData |-> u])
  \/ /\ Idle("a")
     /\ \E transactions \in Batches :
          bulkImportTransactionsStart("a", 3,
                                      [transactions |-> transactions])
  \/ createTransactionRole("a")
  \/ createTransactionInsert("a")
  \/ createTransactionSpent("a")
  \/ updateTransactionRole("a")
  \/ updateTransactionTransfer("a")
  \/ updateTransactionRevert("a")
  \/ updateTransactionRow("a")
  \/ updateTransactionApply("a")
  \/ bulkImportTransactionsRole("a")
  \/ bulkImportTransactionsRow("a")
  \/ Return("a")

AmountSpec == Init /\ [][AmountNext]_vars

\* ---------------------------------------------- updates alone, one at a time
\* the MEMBER of profile 1 updates the rows of the ledger
TransferNext ==
  \/ /\ Idle("a")
     /\ \E id \in TransactionIdInputs, u \in UpdateDatas({Null, 1, 2}) :
          updateTransactionStart("a", 3, [id |-> id, updateData |-> u])
  \/ updateTransactionRole("a")
  \/ updateTransactionTransfer("a")
  \/ updateTransactionRevert("a")
  \/ updateTransactionRow("a")
  \/ updateTransactionApply("a")
  \/ Return("a")

TransferSpec == Init /\ [][TransferNext]_vars

\* ------------------------------- creating and reassigning, one at a time
\* the MEMBER of profile 1 creates transactions, with and without an
\* envelope, and updates them
AssignNext ==
  \/ /\ Idle("a")
     /\ \E args \in CreateInputs({Null, 1}) :
          createTransactionStart("a", 3, args)
  \/ /\ Idle("a")
     /\ \E id \in TransactionIdInputs, u \in UpdateDatas({Null, 1, 2}) :
          updateTransactionStart("a", 3, [id |-> id, updateData |-> u])
  \/ createTransactionRole("a")
  \/ createTransactionInsert("a")
  \/ createTransactionSpent("a")
  \/ updateTransactionRole("a")
  \/ updateTransactionTransfer("a")
  \/ updateTransactionRevert("a")
  \/ updateTransactionRow("a")
  \/ updateTransactionApply("a")
  \/ Return("a")

AssignSpec == Init /\ [][AssignNext]_vars

\* ------------------------------------------- ensureUserRole called directly
\* the role sets of the callers, and sets with a role outside the hierarchy
RequiredRolesInputs == SUBSET (MemberRoles \cup {"VIEWER"})

\* profiles 1 and 2 exist, 3 names no profile
BudgetProfileIdInputs == {1, 2, 3}

ensureUserRoleCall(user, budgetProfileId, requiredRoles) ==
  /\ LET r == ensureUserRole(user, budgetProfileId, requiredRoles)
     IN roleCheck' = [user |-> user, budgetProfileId |-> budgetProfileId,
                      requiredRoles |-> requiredRoles,
                      status |-> r.status, row |-> r.row]
  /\ UNCHANGED <<Transaction, nextTransactionId, Envelope, nonLedger,
                 proc, calls, datastoreError>>

RoleNext ==
  \E user \in Callers, b \in BudgetProfileIdInputs,
     requiredRoles \in RequiredRolesInputs :
    ensureUserRoleCall(user, b, requiredRoles)

RoleSpec == Init /\ [][RoleNext]_vars

\* ================================================================ claims
\* the signed adjustment of the specification: +amount for EXPENSE,
\* -amount for INCOME
SignedAdjustment(type, amount) ==
  IF type = "EXPENSE" THEN amount ELSE 0 - amount

RECURSIVE SumOf(_, _)
SumOf(tx, ids) ==
  IF ids = {} THEN 0
  ELSE LET i == CHOOSE j \in ids : TRUE
       IN SignedAdjustment(tx[i].type, tx[i].amount) + SumOf(tx, ids \ {i})

\* the signed sum of the non-TRANSFER rows linked to envelope e
SignedSum(tx, e) ==
  SumOf(tx, {i \in DOMAIN tx :
               tx[i].envelopeId = e /\ tx[i].type # "TRANSFER"})

ConsistentIn(tx, env) ==
  \A e \in DOMAIN env : env[e].spent = SignedSum(tx, e)

Consistent == ConsistentIn(Transaction, Envelope)

Done(p, op) == proc[p].pc = "done" /\ proc[p].op = op

Succeeded(p, op) == Done(p, op) /\ proc[p].status = "200"

NoWrites(p) ==
  /\ Transaction = proc[p].pre.Transaction
  /\ Envelope = proc[p].pre.Envelope

SpentDelta(p, e) == Envelope[e].spent - proc[p].pre.Envelope[e].spent

\* C1: with requests served one at a time and none aborted by a datastore
\* error, whenever no request is in flight every envelope's spent equals the
\* signed sum of the non-TRANSFER transactions linked to it.
C1_BalanceInvariant ==
  (InFlight = {} /\ ~datastoreError) => Consistent

C1_Witness ==
  \E p \in Procs :
    /\ Succeeded(p, "deleteTransaction")
    /\ ~datastoreError
    /\ calls = 2
    /\ SpentDelta(p, 1) # 0
    /\ Envelope[1].spent # 0

\* the transaction a request is about
Target(p) ==
  IF proc[p].op = "createTransaction" THEN proc[p].loc.newTransaction
  ELSE proc[p].args.id

\* p arrived at a consistent ledger with nothing in flight, q was the next
\* request to arrive, they are about different transactions, and both have
\* returned successfully
PairCompleted(p, q) ==
  /\ p # q
  /\ proc[p].pc = "done" /\ proc[p].status = "200"
  /\ proc[q].pc = "done" /\ proc[q].status = "200"
  /\ proc[p].pre.inFlight = {}
  /\ ConsistentIn(proc[p].pre.Transaction, proc[p].pre.Envelope)
  /\ proc[q].pre.calls = proc[p].pre.calls + 1
  /\ Target(p) # Target(q)

\* q arrived while p was between its datastore calls
Overlapped(p, q) == p \in proc[q].pre.inFlight

\* both requests wrote the spent of envelope e
BothAdjusted(p, q, e) ==
  /\ proc[q].pre.Envelope[e].spent # proc[p].pre.Envelope[e].spent
  /\ Envelope[e].spent # proc[q].pre.Envelope[e].spent

\* C2 (as amended): two requests on different transactions, interleaved at
\* the datastore calls, never lose an update: once both have returned
\* successfully every envelope's spent equals the signed sum of its linked
\* transactions, because each request adjusts spent by atomic increments
\* computed from its own row.
C2_NoLostUpdate ==
  \A p, q \in Procs : PairCompleted(p, q) => Consistent

C2_Witness ==
  \E p, q \in Procs :
    /\ PairCompleted(p, q)
    /\ Overlapped(p, q)
    /\ proc[p].op = "updateTransaction"
    /\ proc[q].op = "updateTransaction"
    /\ BothAdjusted(p, q, 1)

\* C2 (as stated): the spent of an envelope that two interleaved requests on
\* different transactions both adjusted reflects only one of the two net
\* effects, so it differs from the signed sum once both have returned.
C2_LostUpdateRace ==
  \A p, q \in Procs :
    \A e \in DOMAIN Envelope :
      (PairCompleted(p, q) /\ Overlapped(p, q) /\ BothAdjusted(p, q, e))
        => Envelope[e].spent # SignedSum(Transaction, e)

\* the row an updateTransaction or deleteTransaction request found
OldRow(p) == proc[p].pre.Transaction[proc[p].args.id]

ExpenseOrIncome(type) == type = "EXPENSE" \/ type = "INCOME"

\* the request supplies no type or amount that differs from the row's
KeepsTypeAndAmount(p) ==
  LET u == proc[p].args.updateData
  IN /\ Has(u, "type") => u.type = OldRow(p).type
     /\ Has(u, "amount") => u.amount = OldRow(p).amount

\* a successful updateTransaction that moves the row from envelope A to B
Moves(p, A, B) ==
  /\ Succeeded(p, "updateTransaction")
  /\ ExpenseOrIncome(OldRow(p).type)
  /\ KeepsTypeAndAmount(p)
  /\ OldRow(p).envelopeId = A
  /\ Has(proc[p].args.updateData, "envelopeId")
  /\ proc[p].args.updateData.envelopeId = B
  /\ A # B

\* C3: a successful updateTransaction that changes only envelopeId from A to
\* B changes A.spent by minus the signed adjustment, B.spent by plus the
\* signed adjustment, and no other envelope's spent.
C3_MoveBetweenEnvelopes ==
  \A p \in {q \in Procs : Succeeded(q, "updateTransaction")} :
    \A A, B \in DOMAIN Envelope :
      Moves(p, A, B) =>
        LET adj == SignedAdjustment(OldRow(p).type, OldRow(p).amount)
        IN /\ SpentDelta(p, A) = 0 - adj
           /\ SpentDelta(p, B) = adj
           /\ \A e \in DOMAIN Envelope \ {A, B} : SpentDelta(p, e) = 0
           /\ Transaction[proc[p].args.id].envelopeId = B

C3_Witness ==
  \E p \in Procs :
    /\ Moves(p, 1, 2)
    /\ OldRow(p).type = "INCOME"
    /\ SpentDelta(p, 1) = OldRow(p).amount
    /\ SpentDelta(p, 2) = 0 - OldRow(p).amount

\* the failure an unauthorized caller of createTransaction gets
CreateAuthStatus(user) ==
  IF user = NoUser THEN "401"
  ELSE IF \A m \in UserBudgetProfile : m.userId # user THEN "404"
  ELSE "400"

\* C4 (as amended): createTransaction with type TRANSFER always fails and
\* performs no writes; the failure is the user error 400 for an
\* authenticated caller with a membership, 401 for an unauthenticated
\* caller and 404 for a caller with no membership.
C4_CreateTransferRejected ==
  \A p \in Procs :
    (Done(p, "createTransaction") /\ proc[p].args.type = "TRANSFER") =>
      /\ proc[p].status = CreateAuthStatus(proc[p].user)
      /\ NoWrites(p)

C4_Witness ==
  \E p \in Procs :
    /\ Done(p, "createTransaction")
    /\ proc[p].args.type = "TRANSFER"
    /\ proc[p].args.envelopeId = 1
    /\ proc[p].status = "400"
    /\ Transaction # [i \in {} |-> 0]

\* C4 (as stated): createTransaction with type TRANSFER fails with 400 for
\* every caller and every envelopeId, and performs no writes.
C4_AlwaysUserError ==
  \A p \in Procs :
    (Done(p, "createTransaction") /\ proc[p].args.type = "TRANSFER") =>
      /\ proc[p].status = "400"
      /\ NoWrites(p)

\* the request would change the type of an existing row into or out of
\* TRANSFER
CrossesBoundary(p) ==
  /\ Done(p, "updateTransaction")
  /\ proc[p].args.id \in DOMAIN proc[p].pre.Transaction
  /\ Has(proc[p].args.updateData, "type")
  /\ (proc[p].args.updateData.type = "TRANSFER") #
       (OldRow(p).type = "TRANSFER")

\* the failure a caller who may not touch the row gets
RowAuthStatus(user, budgetProfileId) ==
  IF user = NoUser THEN "401"
  ELSE IF \A m \in UserBudgetProfile :
            ~(m.userId = user /\ m.budgetProfileId = budgetProfileId)
    THEN "404"
  ELSE "400"

\* C5 (as amended): updateTransaction that would change an existing row's
\* type into or out of TRANSFER always fails and performs no writes; the
\* failure is the user error 400 for an authenticated member of the row's
\* profile, 401 for an unauthenticated caller and 404 for a caller who is
\* not a member of that profile.
C5_UpdateBoundaryRejected ==
  \A p \in Procs :
    CrossesBoundary(p) =>
      /\ proc[p].status = RowAuthStatus(proc[p].user, OldRow(p).budgetProfileId)
      /\ NoWrites(p)

C5_Witness ==
  \E p \in Procs :
    /\ CrossesBoundary(p)
    /\ OldRow(p).type = "TRANSFER"
    /\ proc[p].args.updateData.type = "EXPENSE"
    /\ proc[p].status = "400"

\* C5 (as stated): such an updateTransaction always fails with 400 and
\* performs no writes.
C5_AlwaysUserError ==
  \A p \in Procs :
    CrossesBoundary(p) => (proc[p].status = "400" /\ NoWrites(p))

\* deleteTransaction on an existing TRANSFER row
DeletesTransfer(p) ==
  /\ Done(p, "deleteTransaction")
  /\ proc[p].args.id \in DOMAIN proc[p].pre.Transaction
  /\ OldRow(p).type = "TRANSFER"

\* C6 (as amended): deleteTransaction on an existing TRANSFER row always
\* fails and performs no writes, so the row still exists; the failure is
\* the user error 400 for an authenticated member of the row's profile, 401
\* for an unauthenticated caller and 404 for a caller who is not a member.
C6_DeleteTransferRejected ==
  \A p \in Procs :
    DeletesTransfer(p) =>
      /\ proc[p].status = RowAuthStatus(proc[p].user, OldRow(p).budgetProfileId)
      /\ NoWrites(p)
      /\ proc[p].args.id \in DOMAIN Transaction

C6_Witness ==
  \E p \in Procs :
    /\ DeletesTransfer(p)
    /\ proc[p].status = "400"
    /\ OldRow(p).envelopeId = 1

\* C6 (as stated): such a deleteTransaction always fails with 400 and
\* performs no writes.
C6_AlwaysUserError ==
  \A p \in Procs :
    DeletesTransfer(p) =>
      /\ proc[p].status = "400"
      /\ NoWrites(p)
      /\ proc[p].args.id \in DOMAIN Transaction

\* the membership rows of the caller of the last direct ensureUserRole call
CheckedMembership ==
  {m \in UserBudgetProfile :
     /\ m.userId = roleCheck.user
     /\ m.budgetProfileId = roleCheck.budgetProfileId}

RoleChecked == roleCheck.status # "none"

\* C7: ensureUserRole(caller, profile, {ADMIN, OWNER}) returns the caller's
\* membership row when the caller's role in the profile is ADMIN or OWNER,
\* and fails with 403 when it is MEMBER.
C7_AdminOrOwnerRequired ==
  (RoleChecked /\ roleCheck.requiredRoles = {"ADMIN", "OWNER"}) =>
    \A m \in CheckedMembership :
      /\ m.role \in {"ADMIN", "OWNER"} =>
           (roleCheck.status = "200" /\ roleCheck.row = {m})
      /\ m.role = "MEMBER" =>
           (roleCheck.status = "403" /\ roleCheck.row = {})

C7_Witness ==
  /\ RoleChecked
  /\ roleCheck.requiredRoles = {"ADMIN", "OWNER"}
  /\ \E m \in CheckedMembership : m.role = "ADMIN" /\ roleCheck.row = {m}

\* C8: for an authenticated caller with no membership row for the given
\* profile id, ensureUserRole fails with 404, never 403, whether or not the
\* profile exists and whatever roles are required.
C8_NoMembershipNotFound ==
  (RoleChecked /\ roleCheck.user # NoUser /\ CheckedMembership = {}) =>
    roleCheck.status = "404"

C8_Witness ==
  /\ RoleChecked
  /\ roleCheck.user = 4
  /\ roleCheck.budgetProfileId = 1
  /\ roleCheck.requiredRoles = {"OWNER"}
  /\ CheckedMembership = {}
  /\ roleCheck.status = "404"

\* a successful createTransaction of an EXPENSE or INCOME on envelope e
CreatesOn(p, e) ==
  /\ Succeeded(p, "createTransaction")
  /\ ExpenseOrIncome(proc[p].args.type)
  /\ proc[p].args.envelopeId = e

\* C9: a successful createTransaction with an envelopeId and type EXPENSE or
\* INCOME inserts exactly one row, linked to that envelope, and changes that
\* envelope's spent by +amount (EXPENSE) or -amount (INCOME) and no other
\* envelope's spent.
C9_CreateAdjustsSpent ==
  \A p \in {q \in Procs : Succeeded(q, "createTransaction")} :
    \A e \in DOMAIN Envelope :
      CreatesOn(p, e) =>
        LET before == proc[p].pre.Transaction
            inserted == DOMAIN Transaction \ DOMAIN before
        IN /\ Cardinality(inserted) = 1
           /\ \A i \in DOMAIN before :
                i \in DOMAIN Transaction /\ Transaction[i] = before[i]
           /\ \A i \in inserted :
                /\ Transaction[i].envelopeId = e
                /\ Transaction[i].type = proc[p].args.type
                /\ Transaction[i].amount = proc[p].args.amount
           /\ SpentDelta(p, e) =
                (IF proc[p].args.type = "EXPENSE" THEN proc[p].args.amount
                 ELSE 0 - proc[p].args.amount)
           /\ \A o \in DOMAIN Envelope \ {e} : SpentDelta(p, o) = 0

C9_Witness ==
  \E p \in Procs :
    /\ CreatesOn(p, 1)
    /\ proc[p].args.type = "EXPENSE"
    /\ proc[p].args.amount = 50
    /\ proc[p].pre.Envelope[1].spent = 0
    /\ Envelope[1].spent = 50

\* a successful updateTransaction of a non-TRANSFER row that stays on its
\* envelope e
UpdatesOn(p, e) ==
  /\ Succeeded(p, "updateTransaction")
  /\ OldRow(p).type # "TRANSFER"
  /\ OldRow(p).envelopeId = e
  /\ Has(proc[p].args.updateData, "envelopeId") =>
       proc[p].args.updateData.envelopeId = e

\* C10: a successful updateTransaction on a non-TRANSFER row that stays on
\* envelope E changes E.spent by the new signed adjustment minus the old
\* one, the new one using the supplied type and amount where present; the
\* change is zero when type and amount are unchanged.
C10_UpdateAdjustsSpent ==
  \A p \in {q \in Procs : Succeeded(q, "updateTransaction")} :
    \A e \in DOMAIN Envelope :
      UpdatesOn(p, e) =>
        LET u == proc[p].args.updateData
            type == IF Has(u, "type") THEN u.type ELSE OldRow(p).type
            amount == IF Has(u, "amount") THEN u.amount ELSE OldRow(p).amount
        IN /\ SpentDelta(p, e) =
                SignedAdjustment(type, amount)
                  - SignedAdjustment(OldRow(p).type, OldRow(p).amount)
           /\ KeepsTypeAndAmount(p) => SpentDelta(p, e) = 0

C10_Witness ==
  \E p \in Procs :
    /\ UpdatesOn(p, 1)
    /\ OldRow(p).type = "EXPENSE"
    /\ OldRow(p).amount = 50
    /\ DOMAIN proc[p].args.updateData = {"amount"}
    /\ proc[p].args.updateData.amount = 30
    /\ proc[p].pre.Envelope[1].spent = 50
    /\ Envelope[1].spent = 30

\* a successful deleteTransaction of a non-TRANSFER row
DeletesRow(p) ==
  /\ Succeeded(p, "deleteTransaction")
  /\ OldRow(p).type # "TRANSFER"

RECURSIVE Importable(_)
Importable(transactions) ==
  IF transactions = <<>> THEN <<>>
  ELSE IF Head(transactions) = 0 THEN Importable(Tail(transactions))
  ELSE <<Head(transactions)>> \o Importable(Tail(transactions))

Failed(p) == proc[p].pc = "done" /\ proc[p].status = "PrismaError"

\* the envelope writes a failed request had committed: the reversal on the
\* old envelope, when the failure came after it
CommittedEnvelope(p) ==
  LET before == proc[p].pre.Envelope
  IN IF /\ proc[p].failedAt \in {"u_row", "u_apply", "d_row"}
        /\ Truthy(OldRow(p).envelopeId)
       THEN [before EXCEPT ![OldRow(p).envelopeId].spent =
               @ - SignedAdjustment(OldRow(p).type, OldRow(p).amount)]
     ELSE before

\* the row writes a failed request had committed: the insert, when the
\* increment failed; the row update, when the apply failed
CommittedTransaction(p) ==
  LET before == proc[p].pre.Transaction
      args == proc[p].args
  IN IF proc[p].failedAt = "c_spent"
       THEN [i \in DOMAIN before \cup {proc[p].loc.newTransaction} |->
               IF i \in DOMAIN before THEN before[i]
               ELSE [amount |-> args.amount, type |-> args.type,
                     envelopeId |-> args.envelopeId,
                     budgetProfileId |-> proc[p].loc.budgetProfileId]]
     ELSE IF proc[p].failedAt = "u_apply"
       THEN LET u == args.updateData
                old == OldRow(p)
            IN [before EXCEPT ![args.id] =
                 [amount |-> IF Has(u, "amount") THEN u.amount ELSE old.amount,
                  type |-> IF Has(u, "type") THEN u.type ELSE old.type,
                  envelopeId |-> IF Has(u, "envelopeId") THEN u.envelopeId
                                 ELSE old.envelopeId,
                  budgetProfileId |-> old.budgetProfileId]]
     ELSE before

\* C13: partial failure is not rolled back.  When a write of createTransaction,
\* updateTransaction or deleteTransaction fails, the request ends with the
\* datastore's error at that write, no later write of it is made, and the
\* tables hold exactly the writes it had committed before the failure: the
\* reversal on the old envelope, the inserted or updated row.
C13_PartialFailureStays ==
  \A p \in {q \in Procs : Failed(q)} :
    /\ proc[p].failedAt \in WritePcs
    /\ Envelope = CommittedEnvelope(p)
    /\ Transaction = CommittedTransaction(p)

\* the row update of an updateTransaction failed after the reversal: spent
\* differs from the signed sum of the linked rows
C13_Witness ==
  \E p \in Procs :
    /\ Failed(p)
    /\ proc[p].op = "updateTransaction"
    /\ proc[p].failedAt = "u_row"
    /\ Envelope # proc[p].pre.Envelope
    /\ Transaction = proc[p].pre.Transaction
    /\ ConsistentIn(proc[p].pre.Transaction, proc[p].pre.Envelope)
    /\ ~Consistent

\* the OWNER memberships of profile b
OwnerMemberships(b) ==
  {m \in UserBudgetProfile : m.budgetProfileId = b /\ m.role = "OWNER"}

\* C14: in every state reachable through createBudgetProfile, inviteUser,
\* updateMemberRole, removeMember, revokeInvitation and signup with
\* invitation acceptance, every budget profile has exactly one membership of
\* role OWNER, the one of the profile's owner; no profile changes its owner,
\* and no OWNER membership names a profile that does not exist.
C14_OwnerInvariant ==
  /\ \A b \in DOMAIN BudgetProfile :
       OwnerMemberships(b) =
         {[userId |-> BudgetProfile[b].ownerId, budgetProfileId |-> b,
           role |-> "OWNER"]}
  /\ \A m \in UserBudgetProfile :
       m.role = "OWNER" => m.budgetProfileId \in DOMAIN BudgetProfile
  /\ \A b \in DOMAIN InitialBudgetProfile :
       b \in DOMAIN BudgetProfile /\ BudgetProfile[b] = InitialBudgetProfile[b]

\* user 5 created a profile after a signup accepted an invitation
C14_Witness ==
  \E p \in Procs :
    /\ Succeeded(p, "createBudgetProfile")
    /\ proc[p].user = 5
    /\ OwnerMemberships(proc[p].loc.budgetProfileId) # {}
    /\ \E i \in DOMAIN Invitation : Invitation[i].status = "ACCEPTED"
    /\ Cardinality(UserBudgetProfile) = 6

\* the caller's memberships when the request arrived
CallerLinks(p) ==
  {m \in proc[p].pre.UserBudgetProfile : m.userId = proc[p].user}

\* C15: updateMemberRole whose target is the caller never succeeds and
\* leaves every membership, the caller's included, unchanged, whether the
\* caller is MEMBER, ADMIN or OWNER.
C15_NoSelfRoleChange ==
  \A p \in {q \in Procs : Done(q, "updateMemberRole")} :
    proc[p].args.userId = proc[p].user =>
      /\ proc[p].status \in {"400", "403", "404"}
      /\ UserBudgetProfile = proc[p].pre.UserBudgetProfile

\* the OWNER asks to become ADMIN and is refused
C15_Witness ==
  \E p \in Procs :
    /\ Done(p, "updateMemberRole")
    /\ proc[p].args.userId = proc[p].user
    /\ proc[p].args.newRole = "ADMIN"
    /\ \E m \in CallerLinks(p) : m.role = "OWNER"
    /\ proc[p].status = "403"

\* the caller is ADMIN in each of their profiles, and the target, another
\* user, is ADMIN there too
AdminOnAdmin(p) ==
  /\ proc[p].args.userId # proc[p].user
  /\ CallerLinks(p) # {}
  /\ \A m \in CallerLinks(p) :
       /\ m.role = "ADMIN"
       /\ [userId |-> proc[p].args.userId,
           budgetProfileId |-> m.budgetProfileId, role |-> "ADMIN"]
            \in proc[p].pre.UserBudgetProfile

\* a successful updateMemberRole or removeMember whose target was an ADMIN of
\* the profile the request resolved
ChangedAdmin(p) ==
  /\ proc[p].pc = "done" /\ proc[p].status = "200"
  /\ proc[p].op \in {"updateMemberRole", "removeMember"}
  /\ [userId |-> proc[p].args.userId,
      budgetProfileId |-> proc[p].loc.budgetProfileId, role |-> "ADMIN"]
       \in proc[p].pre.UserBudgetProfile

\* C16 (as amended): when the caller is ADMIN and the target is another
\* ADMIN, removeMember fails with Forbidden, updateMemberRole fails with
\* Forbidden for a new role ADMIN or MEMBER and with the user error 400 for
\* any other new role, and both leave every membership unchanged; a
\* membership of role ADMIN is changed or removed only by a caller who is
\* the OWNER of the profile.
C16_AdminVsAdmin ==
  \A p \in {q \in Procs : proc[q].pc = "done"} :
    /\ (proc[p].op = "updateMemberRole" /\ AdminOnAdmin(p)) =>
         /\ proc[p].status =
              (IF proc[p].args.newRole \in {"ADMIN", "MEMBER"}
                 THEN "403" ELSE "400")
         /\ UserBudgetProfile = proc[p].pre.UserBudgetProfile
    /\ (proc[p].op = "removeMember" /\ AdminOnAdmin(p)) =>
         /\ proc[p].status = "403"
         /\ UserBudgetProfile = proc[p].pre.UserBudgetProfile
    /\ ChangedAdmin(p) =>
         [userId |-> proc[p].user,
          budgetProfileId |-> proc[p].loc.budgetProfileId, role |-> "OWNER"]
           \in proc[p].pre.UserBudgetProfile

\* user 3 was made ADMIN, then the ADMIN 2 asks to make them MEMBER again
C16_Witness ==
  \E p \in Procs :
    /\ Done(p, "updateMemberRole")
    /\ AdminOnAdmin(p)
    /\ proc[p].user = 2
    /\ proc[p].args = [userId |-> 3, newRole |-> "MEMBER"]
    /\ proc[p].status = "403"

\* C16 (as stated): when the caller is ADMIN and the target is ADMIN, both
\* updateMemberRole and removeMember fail with Forbidden and leave the
\* target's membership unchanged.
C16_AlwaysForbidden ==
  \A p \in {q \in Procs : proc[q].pc = "done"} :
    (proc[p].op \in {"updateMemberRole", "removeMember"} /\ AdminOnAdmin(p)) =>
      /\ proc[p].status = "403"
      /\ UserBudgetProfile = proc[p].pre.UserBudgetProfile

\* C17: removeMember whose target is the caller always fails, with the user
\* error 400, and deletes no membership, whatever the caller's role.
C17_NoSelfRemoval ==
  \A p \in {q \in Procs : Done(q, "removeMember")} :
    proc[p].args.userId = proc[p].user =>
      /\ proc[p].status = "400"
      /\ UserBudgetProfile = proc[p].pre.UserBudgetProfile

\* the ADMIN asks to be removed
C17_Witness ==
  \E p \in Procs :
    /\ Done(p, "removeMember")
    /\ proc[p].args.userId = proc[p].user
    /\ \E m \in CallerLinks(p) : m.role = "ADMIN"
    /\ proc[p].status = "400"
    /\ CallerLinks(p) \subseteq UserBudgetProfile

\* ---------------------------------------------------------------------
\* C18: envelope deletion is blocked while linked transactions exist, also
\* when deleteEnvelope runs concurrently with createTransaction or
\* updateTransaction: no deleteEnvelope call deletes an envelope that a
\* transaction references at that moment, so no transaction loses its
\* envelope link as a side effect of the deletion.
C18_DeletionBlocked ==
  \A p \in {q \in Procs : Succeeded(q, "deleteEnvelope")} :
    proc[p].loc.setNull = {}

\* ---------------------------------------------------------------------
\* the operations that write to the datastore on behalf of a caller
MutatingOperations ==
  {"createTransaction", "updateTransaction", "deleteTransaction",
   "bulkImportTransactions", "createEnvelope", "updateEnvelope",
   "deleteEnvelope", "inviteUser", "updateMemberRole", "removeMember",
   "revokeInvitation"}

\* the request of p has written to a table (requests served one at a time)
Wrote(p) ==
  \/ Transaction # proc[p].pre.Transaction
  \/ Envelope # proc[p].pre.Envelope
  \/ UserBudgetProfile # proc[p].pre.UserBudgetProfile
  \/ Invitation # proc[p].pre.Invitation
  \/ BudgetProfile # proc[p].pre.BudgetProfile

\* C19: authorization precedes mutation: in every mutating operation no
\* datastore write happens before ensureUserRole has returned the caller's
\* membership of the target profile with a sufficient role.
C19_AuthorizationPrecedesMutation ==
  \A p \in {q \in Procs : proc[q].pc # "idle"} :
    proc[p].op \in MutatingOperations /\ Wrote(p) => proc[p].ensured

\* ---------------------------------------------------------------------
\* C20: unauthenticated is checked first: an operation invoked without a
\* caller identity fails with 401 whatever its input, before any other
\* check (no ensureUserRole, no validation, NotFound or TRANSFER answer),
\* having read nothing from the datastore and written nothing to it.
\* (A signup has no caller identity by nature and is not an operation.)
C20_UnauthenticatedFirst ==
  \A p \in {q \in Procs : proc[q].pc # "idle"} :
    proc[p].user = NoUser /\ proc[p].op # "signup" =>
      /\ proc[p].pc = "done"
      /\ proc[p].status = "401"
      /\ proc[p].loc = NoLoc
      /\ ~proc[p].ensured
      /\ ~Wrote(p)

\* an invitation with an invalid role, sent without a caller identity after
\* an earlier request has changed the datastore, was answered with 401
C20_Witness ==
  \E p \in Procs :
    /\ Done(p, "inviteUser")
    /\ proc[p].user = NoUser
    /\ inviteRoleRejected(proc[p].args.email, proc[p].args.role)
    /\ proc[p].status = "401"
    /\ proc[p].pre.calls > 0
    /\ proc[p].pre.Envelope \notin {l.env : l \in InitialLedgers}

\* ---------------------------------------------------------------------
\* C21: stored amounts are non-negative: in every state reachable through
\* createTransaction, updateTransaction and bulkImportTransactions every
\* stored transaction has amount >= 0.
C21_AmountsNonNegative ==
  \A i \in DOMAIN Transaction : Transaction[i].amount >= 0

\* ---------------------------------------------------------------------
\* the membership rows of a user in a profile
LinksOf(links, userId, b) ==
  {m \in links : m.userId = userId /\ m.budgetProfileId = b}

\* p is an inviteUser call with valid input by an authorized caller, for a
\* user who was a member of the caller's profile when the call arrived
InvitesMember(p) ==
  /\ Done(p, "inviteUser")
  /\ proc[p].ensured
  /\ LinksOf(proc[p].pre.UserBudgetProfile, proc[p].args.email,
             proc[p].loc.budgetProfileId) # {}

NewLinks(p) == UserBudgetProfile \ proc[p].pre.UserBudgetProfile

\* C23: invitation acceptance at signup is token-gated: a signup gives the
\* new user a Membership only if it carried an invite token that named a
\* PENDING invitation for the email, and the Membership created and the
\* invitation set to ACCEPTED are those of the invitation the token names.
C23_TokenGated ==
  \A p \in {q \in Procs : Done(q, "signup")} :
    NewLinks(p) # {} =>
      LET token == proc[p].args.inviteToken
      IN /\ token # Null
         /\ token \in DOMAIN proc[p].pre.Invitation
         /\ proc[p].pre.Invitation[token].status = "PENDING"
         /\ proc[p].pre.Invitation[token].email = proc[p].args.email
         /\ token \in DOMAIN Invitation
         /\ Invitation[token].status = "ACCEPTED"
         /\ NewLinks(p) =
              {[userId |-> proc[p].args.email,
                budgetProfileId |-> Invitation[token].budgetProfileId,
                role |-> Invitation[token].role]}

\* ---------------------------------------------------------------------
\* the hierarchy as the specification states it
Level(role) == IF role = "MEMBER" THEN 1 ELSE IF role = "ADMIN" THEN 2 ELSE 3

\* the least level among the allowed roles
MinLevel(allowedRoles) ==
  CHOOSE n \in {Level(r) : r \in allowedRoles} :
    \A r \in allowedRoles : n <= Level(r)

\* C24: threshold semantics of ensureUserRole: for a caller with a Membership
\* and a non-empty set of valid allowed roles the call succeeds, returning
\* the membership row, if and only if the level of the caller's role is at
\* least the minimum level among the allowed roles (MEMBER=1 < ADMIN=2 <
\* OWNER=3), and fails with 403 otherwise; a higher role passes even when it
\* is not in the set.
C24_Threshold ==
  (/\ RoleChecked
   /\ roleCheck.requiredRoles # {}
   /\ roleCheck.requiredRoles \subseteq {"MEMBER", "ADMIN", "OWNER"}) =>
    \A m \in CheckedMembership :
      IF Level(m.role) >= MinLevel(roleCheck.requiredRoles)
        THEN roleCheck.status = "200" /\ roleCheck.row = {m}
        ELSE roleCheck.status = "403" /\ roleCheck.row = {}

\* the ADMIN of profile 1 passes for {MEMBER, OWNER}
C24_Witness ==
  /\ RoleChecked
  /\ roleCheck.user = 2
  /\ roleCheck.budgetProfileId = 1
  /\ roleCheck.requiredRoles = {"MEMBER", "OWNER"}
  /\ roleCheck.status = "200"
  /\ \E m \in roleCheck.row : m.role = "ADMIN"

\* ---------------------------------------------------------------------
\* a successful updateTransaction of a TRANSFER that remains a TRANSFER
UpdatesTransfer(p) ==
  /\ Succeeded(p, "updateTransaction")
  /\ OldRow(p).type = "TRANSFER"
  /\ Has(proc[p].args.updateData, "type") =>
       proc[p].args.updateData.type = "TRANSFER"

\* C25: transfers never touch spent: an updateTransaction on a transaction
\* whose type is TRANSFER and remains TRANSFER writes the fields given to the
\* row, a changed envelopeId included, and leaves the spent of every
\* envelope unchanged.
C25_TransferKeepsSpent ==
  \A p \in {q \in Procs : UpdatesTransfer(q)} :
    LET u == proc[p].args.updateData
        row == Transaction[proc[p].args.id]
    IN /\ row.type = "TRANSFER"
       /\ row.amount = IF Has(u, "amount") THEN u.amount ELSE OldRow(p).amount
       /\ row.envelopeId = IF Has(u, "envelopeId") THEN u.envelopeId
                           ELSE OldRow(p).envelopeId
       /\ row.budgetProfileId = OldRow(p).budgetProfileId
       /\ \A e \in DOMAIN Envelope : SpentDelta(p, e) = 0

\* a TRANSFER on envelope 1 was given another amount and moved to envelope 2
C25_Witness ==
  \E p \in Procs :
    /\ UpdatesTransfer(p)
    /\ OldRow(p).envelopeId = 1
    /\ Has(proc[p].args.updateData, "envelopeId")
    /\ proc[p].args.updateData.envelopeId = 2
    /\ Has(proc[p].args.updateData, "amount")
    /\ proc[p].args.updateData.amount # OldRow(p).amount
    /\ Transaction[proc[p].args.id].envelopeId = 2

\* ---------------------------------------------------------------------
\* a successful createTransaction with no envelope
CreatesUnassigned(p) ==
  /\ Succeeded(p, "createTransaction")
  /\ proc[p].args.envelopeId = Null

\* a successful updateTransaction that sets the envelopeId of a non-TRANSFER
\* row linked to envelope A to null
Unassigns(p, A) ==
  /\ Succeeded(p, "updateTransaction")
  /\ ExpenseOrIncome(OldRow(p).type)
  /\ OldRow(p).envelopeId = A
  /\ Has(proc[p].args.updateData, "envelopeId")
  /\ proc[p].args.updateData.envelopeId = Null

\* a successful updateTransaction that assigns an unassigned non-TRANSFER row
\* to envelope B
Assigns(p, B) ==
  /\ Succeeded(p, "updateTransaction")
  /\ ExpenseOrIncome(OldRow(p).type)
  /\ OldRow(p).envelopeId = Null
  /\ Has(proc[p].args.updateData, "envelopeId")
  /\ proc[p].args.updateData.envelopeId = B

\* the signed adjustment of the row as the request leaves it
NewAdjustment(p) ==
  LET u == proc[p].args.updateData
  IN SignedAdjustment(IF Has(u, "type") THEN u.type ELSE OldRow(p).type,
                      IF Has(u, "amount") THEN u.amount ELSE OldRow(p).amount)

\* C26: unassigned transactions contribute to no envelope: a createTransaction
\* without envelope changes no spent; an updateTransaction that sets the
\* envelopeId of a linked non-TRANSFER transaction to null decrements the old
\* envelope by the old signed adjustment and changes no other; an
\* updateTransaction that assigns an unassigned transaction to envelope B
\* increments B by the new signed adjustment and changes no other.
C26_UnassignedContributesNothing ==
  /\ \A p \in {q \in Procs : CreatesUnassigned(q)} :
       /\ \A e \in DOMAIN Envelope : SpentDelta(p, e) = 0
       /\ Transaction[proc[p].loc.newTransaction].envelopeId = Null
  /\ \A p \in {q \in Procs : Succeeded(q, "updateTransaction")} :
       \A A \in DOMAIN Envelope :
         /\ Unassigns(p, A) =>
              /\ SpentDelta(p, A)
                   = 0 - SignedAdjustment(OldRow(p).type, OldRow(p).amount)
              /\ \A e \in DOMAIN Envelope \ {A} : SpentDelta(p, e) = 0
              /\ Transaction[proc[p].args.id].envelopeId = Null
         /\ Assigns(p, A) =>
              /\ SpentDelta(p, A) = NewAdjustment(p)
              /\ \A e \in DOMAIN Envelope \ {A} : SpentDelta(p, e) = 0
              /\ Transaction[proc[p].args.id].envelopeId = A

\* an INCOME created without envelope was assigned to envelope 2 as an
\* EXPENSE of another amount
C26_Witness ==
  \E p \in Procs :
    /\ Assigns(p, 2)
    /\ OldRow(p).type = "INCOME"
    /\ Has(proc[p].args.updateData, "type")
    /\ proc[p].args.updateData.type = "EXPENSE"
    /\ Has(proc[p].args.updateData, "amount")
    /\ proc[p].args.updateData.amount # OldRow(p).amount
    /\ SpentDelta(p, 2) = proc[p].args.updateData.amount

\* ---------------------------------------------------------------------
\* the numbers of the rows of a batch whose amount is zero, in order
RECURSIVE ZeroRows(_, _)
ZeroRows(transactions, k) ==
  IF k > Len(transactions) THEN <<>>
  ELSE IF transactions[k] = 0 THEN <<k>> \o ZeroRows(transactions, k + 1)
  ELSE ZeroRows(transactions, k + 1)

\* C27: per-row rejection in bulk import: a row whose amount is zero creates
\* no transaction and is counted as an error without aborting the batch; the
\* other rows, those after it included, are imported in their order; on
\* return successCount + errorCount is the number of rows and errors holds
\* exactly errorCount entries, one for each zero row.
C27_PerRowRejection ==
  \A p \in {q \in Procs : Done(q, "bulkImportTransactions")
                          /\ proc[q].ensured} :
    LET transactions == proc[p].args.transactions
        results == proc[p].loc
        zeros == ZeroRows(transactions, 1)
        created == DOMAIN Transaction \ DOMAIN proc[p].pre.Transaction
    IN /\ proc[p].status = "200"
       /\ results.errorCount = Len(zeros)
       /\ results.errors = zeros
       /\ results.successCount + results.errorCount = Len(transactions)
       /\ Len(results.errors) = results.errorCount
       /\ Cardinality(created) = Len(transactions) - Len(zeros)
       /\ \A i \in created : Transaction[i].amount # 0
       /\ \A k \in 1..Len(transactions) :
            transactions[k] # 0 =>
              LET id == nextTransactionId
                          - Cardinality({j \in k..Len(transactions) :
                                           transactions[j] # 0})
              IN /\ id \in created
                 /\ Transaction[id].amount =
                      IF transactions[k] < 0 THEN 0 - transactions[k]
                      ELSE transactions[k]

\* a batch whose first row is zero and whose second is not: one error, one
\* transaction
C27_Witness ==
  \E p \in Procs :
    /\ Succeeded(p, "bulkImportTransactions")
    /\ Len(proc[p].args.transactions) = 2
    /\ proc[p].args.transactions[1] = 0
    /\ proc[p].args.transactions[2] # 0
    /\ proc[p].loc.errorCount = 1
    /\ proc[p].loc.successCount = 1
    /\ proc[p].loc.errors = <<1>>

\* ---------------------------------------------------------------------
\* the caller of p has a membership in profile b
CallerIsMemberOf(p, b) ==
  \E m \in UserBudgetProfile :
    m.userId = proc[p].user /\ m.budgetProfileId = b

\* C28: profile isolation of the ledger: the envelope a transaction is linked
\* to belongs to the budget profile of the transaction, and no
\* createTransaction or updateTransaction call changes the spent of an
\* envelope of a profile where its caller has no Membership, whatever
\* envelopeId is supplied.
C28_ProfileIsolation ==
  /\ \A i \in DOMAIN Transaction :
       Transaction[i].envelopeId \in DOMAIN Envelope =>
         Envelope[Transaction[i].envelopeId].budgetProfileId
           = Transaction[i].budgetProfileId
  /\ \A p \in {q \in Procs : proc[q].pc # "idle"} :
       proc[p].op \in {"createTransaction", "updateTransaction"} =>
         \A e \in DOMAIN Envelope :
           SpentDelta(p, e) # 0 =>
             CallerIsMemberOf(p, Envelope[e].budgetProfileId)

\* ---------------------------------------------------------------------
\* p arrived at a consistent ledger with nothing in flight, q arrived next
\* while p was between its datastore calls, both are about the same
\* transaction, one of them at least an update, and both have returned,
\* successfully or with an error
SameTransactionPair(p, q) ==
  /\ p # q
  /\ proc[p].pc = "done" /\ proc[q].pc = "done"
  /\ {proc[p].op, proc[q].op} \in
       {{"updateTransaction"}, {"updateTransaction", "deleteTransaction"}}
  /\ proc[p].args.id = proc[q].args.id
  /\ proc[p].pre.inFlight = {}
  /\ ConsistentIn(proc[p].pre.Transaction, proc[p].pre.Envelope)
  /\ proc[q].pre.calls = proc[p].pre.calls + 1
  /\ Overlapped(p, q)

\* C29: same-transaction concurrency: when two mutating calls on the same
\* transaction interleave at single datastore calls, after both have
\* returned every envelope's spent equals the signed sum of the non-TRANSFER
\* transactions linked to it: the old contribution is reversed exactly once.
C29_SameTransactionConsistent ==
  \A p, q \in Procs : SameTransactionPair(p, q) => Consistent

\* ---------------------------------------------------------------------
\* C30: pending-invitation uniqueness: in every reachable state, two
\* concurrent inviteUser calls for the same unregistered email and profile
\* included, at most one Invitation with status PENDING exists per
\* (email, profile).
C30_PendingInvitationUnique ==
  \A email \in InviteEmails, b \in DOMAIN BudgetProfile :
    Cardinality(PendingInvitations(email, b)) <= 1

====
